---- MODULE Spec2Model ----
(***************************************************************************)
(* The resilient delivery pipeline of project-aura-events-consumer:        *)
(* KafkaEventConsumer.processBatch driving MongoDBWriter.writeEventWithRetry*)
(* behind the writer's circuit breaker, with dead-letter routing and the   *)
(* offset discipline of the KafkaJS eachBatch runner.                      *)
(***************************************************************************)
EXTENDS Integers, Sequences, FiniteSets, TLC

\* ---------------------------------------------------------------- bounds
\* longest batch the log source delivers
MaxBatch == 2
\* largest clock reading (Date.now()), in ticks
MaxTime == 2
\* how many dlqProducer.send calls may fail in one run
MaxDlqFaults == 2
\* how many heartbeat() calls may fail in one run
MaxHeartbeatFaults == 1
\* how many workers share the writer
NumWorkers == 2
\* how many writeEvent calls the workers make in one run
MaxCalls == 8
\* largest clock reading in the runs of the workers and of the health check
MaxClock == 4
\* how many messages the health runs process
MaxProcessed == 2
\* how many times sendToDLQ is called in the runs of the dead-letter router
MaxDlqSends == 2
\* the retry configurations tried: initialDelay and maxDelay in ticks,
\* backoffMultiplier from 0, maxAttempts from 1
MaxInitialDelay == 2
MaxMultiplier == 3
MaxDelayBound == 8
MaxRetryAttempts == 4
\* longest events array handed to writeBatch
MaxEvents == 2
\* how many events the writeBatch calls of one run send to the store
MaxBatchWrites == 6
\* how many writeEvent calls pass the gate in a run in which the store recovers
MaxRecoveryCalls == 7
\* how many shutdown triggers reach the process
NumTriggers == 3
\* how many callers call mongoWriter.initialize()
NumCallers == 3

\* ---------------------------------------------------------- configuration
\* config.circuitBreaker.*, config.retry.maxAttempts (defaults; the timeout
\* is counted in ticks of the model clock)
failureThreshold == 5
successThreshold == 2
timeoutMs == 2
maxAttempts == 3
\* config.retry.initialDelay, maxDelay (milliseconds), backoffMultiplier
initialDelay == 1000
maxDelay == 30000
backoffMultiplier == 2
\* the staleness window of healthCheck (300000 ms), in ticks of the model clock
staleAfter == 2

\* eachBatchAutoResolve, as passed to consumer.run
eachBatchAutoResolve == TRUE

\* ------------------------------------------------------------- data model
\* this.lastFailureTime = null
NoFailureTime == -1
\* metrics.lastProcessedTimestamp = null
NoTimestamp == -1
\* a field that is absent from the decoded JSON object
Absent == ""

CLOSED == "CLOSED"
OPEN == "OPEN"
HALF_OPEN == "HALF_OPEN"

\* error.message of the errors the pipeline sees
CircuitOpenMessage == "Circuit breaker is OPEN - MongoDB writes are temporarily disabled"
StoreFaultMessage == "store fault"
DlqSendMessage == "dlq send failed"
HeartbeatMessage == "heartbeat failed"
InvalidMessageReason == "Invalid message format"

\* message.value: either bytes that JSON.parse rejects, or a JSON object with
\* the four CloudEvent fields and an optional payload field named _id
Value(dec, id, type, source, time, xid) ==
    [decodable |-> dec, id |-> id, type |-> type, source |-> source,
     time |-> time, _id |-> xid]

ValidValues ==
    { Value(TRUE, "a", "t", "s", "1", Absent),
      Value(TRUE, "a", "u", "s", "1", Absent),
      Value(TRUE, "b", "t", "s", "1", Absent),
      Value(TRUE, "a", "t", "s", "1", "b") }

InvalidValues ==
    { Value(FALSE, Absent, Absent, Absent, Absent, Absent),
      Value(TRUE, Absent, "t", "s", "1", Absent),
      Value(TRUE, "a", Absent, "s", "1", Absent),
      Value(TRUE, "a", "t", Absent, "1", Absent),
      Value(TRUE, "a", "t", "s", Absent, Absent) }

\* what parseMessage returns for a message it rejects (null)
NullEvent == Value(FALSE, Absent, Absent, Absent, Absent, Absent)

Values == ValidValues \cup InvalidValues

\* batches of 1..MaxBatch messages; message.offset is the position in the batch
Batches == UNION { [1..n -> Values] : n \in 1..MaxBatch }

VARIABLES
    batch,            \* batch.messages, by offset
    pc,               \* where processBatch stands
    idx,              \* offset of the message the for-loop is at
    event,            \* the parsed event of the current message
    attempt,          \* writeEventWithRetry's attempt parameter
    dlqMessage,       \* the message handed to dlqProducer.send: [reason, from]
    circuit,          \* circuitState, failureCount, successCount, lastFailureTime
    collection,       \* the documents of the MongoDB collection
    writerMetrics,    \* MongoDBWriter.metrics
    metrics,          \* KafkaEventConsumer.metrics
    now,              \* the last reading of the clock (Date.now())
    isShuttingDown,   \* KafkaEventConsumer.isShuttingDown
    running,          \* what the runner's isRunning() returns
    resolved,         \* the offsets processBatch passed to resolveOffset, in order
    autoResolved,     \* the offsets the runner resolved after eachBatch returned
    sinkCalls,        \* the writeEvent calls that ended: [offset, outcome, message]
    dlqCalls,         \* the dlqProducer.send calls that ended: [offset, reason, ok]
    heartbeats,       \* the heartbeat() calls that ended: [offset, ok]
    backoffs,         \* the backoff timers the retry started: [offset, attempt, delay]
    isRunning,        \* KafkaEventConsumer.isRunning
    healthStatus,     \* the status the last healthCheck() returned
    wpc,              \* per worker: where its writeEvent call stands
    wev,              \* per worker: the event its call in flight carries
    seen,             \* per worker: failureCount when its call in flight was admitted
    lastOp,           \* the last breaker call: [op, before, t, allowed]
    streak,           \* recordFailure calls since the last recordSuccess
    streakFromClosed, \* the circuit was CLOSED when that streak began
    probeSuccesses,   \* recordSuccess calls made in HALF_OPEN since it was entered
    failedAt,         \* clock reading of the last recordFailure call
    reopenedAt,       \* clock reading of the last recordFailure made in HALF_OPEN
    openedAt,         \* clock reading of the recordFailure that last moved the circuit to OPEN
    admittedIn,       \* per worker: circuitState when its call in flight passed the gate
    admitted,         \* writeEvent calls that passed the gate
    recorded,         \* recordSuccess and recordFailure calls made
    retry,            \* a retry configuration: [initialDelay, backoffMultiplier, maxDelay, maxAttempts]
    waited,           \* the delays a retry under that configuration waited, in order
    retryState,       \* that retry is "trying", or it "returned" or "threw"
    message,          \* a consumed message: [key, value, headers]
    dlqTopic,         \* the sends the dead-letter topic acknowledged:
                      \* [topic, original, sent, reason, at]
    bpc,              \* where a writeBatch call stands
    bevents,          \* the events array of the last writeBatch call that read it
    bresult,          \* what that call returned or threw
    bstored,          \* the collection when that call sent its bulkWrite
    brecorded,        \* the breaker calls that call made after the gate
    connection,       \* MongoDBWriter: [client, isConnected, isConnecting, db]
    ipc,              \* per caller: where its mongoWriter.initialize() call stands
    spc,              \* per trigger: where its shutdown(signal) handler stands
    service,          \* [consumerConnected, producerConnected, exitCode]
    storeFaulty       \* the store answers updateOne with an error

\* the variables of the batch pipeline alone
pipelineVars == << batch, pc, idx, event, attempt, dlqMessage, isShuttingDown,
                   running, resolved, autoResolved, sinkCalls, dlqCalls,
                   heartbeats, backoffs >>
\* the variables of the workers that share the writer, and of the breaker's history
writersVars == << wpc, wev, seen, lastOp, streak, streakFromClosed,
                  probeSuccesses, failedAt, reopenedAt, openedAt, admittedIn,
                  admitted, recorded >>
healthVars == << isRunning, healthStatus >>
delayVars == << retry, waited, retryState >>
dlqVars == << message, dlqTopic >>
batchVars == << bpc, bevents, bresult, bstored, brecorded >>
\* the writer's connection, the service's shutdown and the store's health
lifeVars == << connection, ipc, spc, service, storeFaulty >>
\* what processBatch never touches
besidePipeline == << writersVars, healthVars, delayVars, dlqVars, batchVars, lifeVars >>

vars == << pipelineVars, circuit, collection, writerMetrics, metrics, now,
           writersVars, healthVars, delayVars, dlqVars, batchVars, lifeVars >>


\* ------------------------------------------------------------ parseMessage
\* a variant that does not look at event.time
parseMessageNoTime(value) ==
    IF ~value.decodable THEN NullEvent
    ELSE IF value.id = Absent \/ value.type = Absent \/ value.source = Absent
         THEN NullEvent
         ELSE value

\* JSON.parse, then the required CloudEvent fields; null on any failure
parseMessage(value) ==
    IF ~value.decodable THEN NullEvent
    ELSE IF value.id = Absent \/ value.type = Absent \/ value.source = Absent
            \/ value.time = Absent
         THEN NullEvent
         ELSE value

\* --------------------------------------------------------- circuit breaker
InitialCircuit ==
    [circuitState |-> CLOSED, failureCount |-> 0, successCount |-> 0,
     lastFailureTime |-> NoFailureTime]

\* now - this.lastFailureTime (null converts to 0)
timeSinceLastFailure(c, t) ==
    IF c.lastFailureTime = NoFailureTime THEN t ELSE t - c.lastFailureTime

\* a variant that restarts the open window whenever it rejects a call
canExecuteSliding(c, t) ==
    IF c.circuitState = CLOSED THEN [allowed |-> TRUE, circuit |-> c]
    ELSE IF c.circuitState = OPEN
         THEN IF timeSinceLastFailure(c, t) >= timeoutMs
              THEN [allowed |-> TRUE,
                    circuit |-> [c EXCEPT !.circuitState = HALF_OPEN,
                                          !.successCount = 0]]
              ELSE [allowed |-> FALSE,
                    circuit |-> [c EXCEPT !.lastFailureTime = t]]
         ELSE [allowed |-> TRUE, circuit |-> c]

\* a variant whose OPEN state never lets a probe through
canExecuteNoProbe(c, t) ==
    IF c.circuitState = OPEN
    THEN [allowed |-> FALSE, circuit |-> c]
    ELSE [allowed |-> TRUE, circuit |-> c]

\* a variant that waits for more than the timeout
canExecuteLate(c, t) ==
    IF c.circuitState = CLOSED THEN [allowed |-> TRUE, circuit |-> c]
    ELSE IF c.circuitState = OPEN
         THEN IF timeSinceLastFailure(c, t) > timeoutMs
              THEN [allowed |-> TRUE,
                    circuit |-> [c EXCEPT !.circuitState = HALF_OPEN,
                                          !.successCount = 0]]
              ELSE [allowed |-> FALSE, circuit |-> c]
         ELSE [allowed |-> TRUE, circuit |-> c]

\* canExecute() at clock reading t: what it returns and the circuit it leaves
canExecute(c, t) ==
    IF c.circuitState = CLOSED THEN [allowed |-> TRUE, circuit |-> c]
    ELSE IF c.circuitState = OPEN
         THEN IF timeSinceLastFailure(c, t) >= timeoutMs
              THEN [allowed |-> TRUE,
                    circuit |-> [c EXCEPT !.circuitState = HALF_OPEN,
                                          !.successCount = 0]]
              ELSE [allowed |-> FALSE, circuit |-> c]
         ELSE [allowed |-> TRUE, circuit |-> c]

\* a variant that closes the circuit without zeroing the success count
recordSuccessKeepsCount(c) ==
    LET c1 == [c EXCEPT !.failureCount = 0] IN
    IF c1.circuitState = HALF_OPEN
    THEN LET c2 == [c1 EXCEPT !.successCount = c1.successCount + 1] IN
         IF c2.successCount >= successThreshold
         THEN [c2 EXCEPT !.circuitState = CLOSED]
         ELSE c2
    ELSE c1

\* a variant that closes the circuit one success early
recordSuccessEager(c) ==
    LET c1 == [c EXCEPT !.failureCount = 0] IN
    IF c1.circuitState = HALF_OPEN
    THEN LET c2 == [c1 EXCEPT !.successCount = c1.successCount + 1] IN
         IF c2.successCount >= successThreshold - 1
         THEN [c2 EXCEPT !.circuitState = CLOSED, !.successCount = 0]
         ELSE c2
    ELSE c1

recordSuccess(c) ==
    LET c1 == [c EXCEPT !.failureCount = 0] IN
    IF c1.circuitState = HALF_OPEN
    THEN LET c2 == [c1 EXCEPT !.successCount = c1.successCount + 1] IN
         IF c2.successCount >= successThreshold
         THEN [c2 EXCEPT !.circuitState = CLOSED, !.successCount = 0]
         ELSE c2
    ELSE c1

\* a variant that opens the circuit one failure late
recordFailureLate(c, t) ==
    LET c1 == [c EXCEPT !.failureCount = c.failureCount + 1,
                        !.lastFailureTime = t] IN
    IF c1.circuitState = HALF_OPEN
    THEN [c1 EXCEPT !.circuitState = OPEN]
    ELSE IF c1.failureCount > failureThreshold
         THEN [c1 EXCEPT !.circuitState = OPEN]
         ELSE c1

\* a variant without the HALF_OPEN case: it opens the circuit on the count alone
recordFailureCounting(c, t) ==
    LET c1 == [c EXCEPT !.failureCount = c.failureCount + 1,
                        !.lastFailureTime = t] IN
    IF c1.failureCount >= failureThreshold
    THEN [c1 EXCEPT !.circuitState = OPEN]
    ELSE c1

recordFailure(c, t) ==
    LET c1 == [c EXCEPT !.failureCount = c.failureCount + 1,
                        !.lastFailureTime = t] IN
    IF c1.circuitState = HALF_OPEN
    THEN [c1 EXCEPT !.circuitState = OPEN]
    ELSE IF c1.failureCount >= failureThreshold
         THEN [c1 EXCEPT !.circuitState = OPEN]
         ELSE c1

\* ------------------------------------------------------------- sink writer
\* const document = { _id: event.id, ...event }: a payload field named _id,
\* spread after the explicit key, replaces it
document(ev) ==
    [_id |-> IF ev._id # Absent THEN ev._id ELSE ev.id, content |-> ev]

\* collection.updateOne({_id}, {$setOnInsert: document}, {upsert: true})
updateOne(coll, doc) ==
    IF \E d \in coll : d._id = doc._id
    THEN [collection |-> coll, upsertedCount |-> 0]
    ELSE [collection |-> coll \cup {doc}, upsertedCount |-> 1]

\* the write result writeEvent returns for an upsert result
writeResult(upsertedCount) ==
    IF upsertedCount > 0
    THEN [success |-> TRUE, inserted |-> TRUE, duplicate |-> FALSE]
    ELSE [success |-> TRUE, inserted |-> FALSE, duplicate |-> TRUE]


\* ------------------------------------------------------------ retry delay
Min(a, b) == IF a <= b THEN a ELSE b

\* Math.pow(b, e) for a whole exponent e >= 0
RECURSIVE Pow(_, _)
Pow(b, e) == IF e = 0 THEN 1 ELSE b * Pow(b, e - 1)

\* a variant whose exponent is the number of the failed attempt itself
delayFromAttempt(initial, multiplier, maxD, failedAttempt) ==
    Min(initial * Pow(multiplier, failedAttempt), maxD)

\* the delay writeEventWithRetry waits after its attempt number failedAttempt
\* failed: Math.min(initialDelay * Math.pow(backoffMultiplier, attempt - 1),
\* maxDelay)
delay(initial, multiplier, maxD, failedAttempt) ==
    Min(initial * Pow(multiplier, failedAttempt - 1), maxD)

\* the retry configuration of config.retry
DefaultRetry ==
    [initialDelay |-> initialDelay, backoffMultiplier |-> backoffMultiplier,
     maxDelay |-> maxDelay, maxAttempts |-> maxAttempts]

DelayIdle ==
    /\ retry = DefaultRetry
    /\ waited = << >>
    /\ retryState = "trying"

\* ------------------------------------------------------ dead-letter message
\* the two topics of config.kafka
topic == "events-v1"
dlqTopicName == "events-v1-dlq"

ErrorReasonHeader == "x-error-reason"
FailedTimestampHeader == "x-failed-timestamp"
OriginalTopicHeader == "x-original-topic"

\* a variant of the spread in which the keys already present win
SpreadKeepsFirst(first, second) ==
    [k \in DOMAIN first \cup DOMAIN second |->
        IF k \in DOMAIN first THEN first[k] ELSE second[k]]

\* { ...first, <the keys of second> }: a key of second replaces the same key
\* of first
Spread(first, second) ==
    [k \in DOMAIN first \cup DOMAIN second |->
        IF k \in DOMAIN second THEN second[k] ELSE first[k]]

\* the dlqMessage sendToDLQ builds at clock reading t
buildDlqMessage(msg, errorReason, t) ==
    [key |-> msg.key,
     value |-> msg.value,
     headers |-> Spread(msg.headers,
                        (ErrorReasonHeader :> errorReason)
                        @@ (FailedTimestampHeader :> ToString(t))
                        @@ (OriginalTopicHeader :> topic))]

\* headers of a message that carries none
NoHeaders == [k \in {} |-> ""]
NoMessage == [key |-> "", value |-> NullEvent, headers |-> NoHeaders]

DlqIdle ==
    /\ message = NoMessage
    /\ dlqTopic = << >>

\* ------------------------------------------------------------- writeBatch
\* no writeBatch call has been made yet
NoBatchResult == [outcome |-> "none", inserted |-> 0, duplicates |-> 0,
                  failed |-> 0]

BatchIdle ==
    /\ bpc = "idle"
    /\ bevents = << >>
    /\ bresult = NoBatchResult
    /\ bstored = {}
    /\ brecorded = << >>

\* ------------------------------------------------- connection and shutdown
\* process.exit has not been called
NotExited == -1

\* the callers of mongoWriter.initialize() and the shutdown triggers (SIGTERM,
\* SIGINT, uncaughtException, unhandledRejection) that reach the process
Callers == 1..NumCallers
Triggers == 1..NumTriggers

\* the writer's connection fields as the constructor leaves them
NotConnected == [client |-> "null", isConnected |-> FALSE,
                 isConnecting |-> FALSE, db |-> FALSE]

\* the same fields after initialize() connected
Connected == [client |-> "open", isConnected |-> TRUE, isConnecting |-> FALSE,
              db |-> TRUE]

\* start() has run: the writer is connected, consumer and dead-letter producer
\* are connected, the shutdown handlers are registered and none has run
ServiceUp ==
    /\ connection = Connected
    /\ ipc = [c \in Callers |-> "idle"]
    /\ spc = [h \in Triggers |-> "idle"]
    /\ service = [consumerConnected |-> TRUE, producerConnected |-> TRUE,
                  exitCode |-> NotExited]
    /\ storeFaulty = TRUE

\* ------------------------------------------------------------ health check
\* healthCheck has not been called yet
NotChecked == [status |-> "none", at |-> 0, isRunning |-> FALSE,
               lastProcessed |-> NoTimestamp]

\* the status healthCheck() returns at clock reading t: null and 0 are both
\* falsy in `lastProcessedTimestamp ? ... : null` and in
\* `timeSinceLastMessage && ...`
healthCheck(consumerRunning, lastProcessed, t) ==
    IF ~consumerRunning THEN "unhealthy"
    ELSE LET timeSinceLastMessage ==
                 IF lastProcessed # NoTimestamp /\ lastProcessed # 0
                 THEN t - lastProcessed
                 ELSE 0
         IN IF timeSinceLastMessage # 0 /\ timeSinceLastMessage > staleAfter
            THEN "degraded"
            ELSE "healthy"

\* ------------------------------------------------- workers sharing the writer
Workers == 1..NumWorkers

\* no breaker call has been made yet
NoOp == [op |-> "none", before |-> InitialCircuit, t |-> 0, allowed |-> TRUE,
         call |-> "none", admittedIn |-> Absent]

WritersIdle ==
    /\ wpc = [w \in Workers |-> "idle"]
    /\ wev = [w \in Workers |-> NullEvent]
    /\ seen = [w \in Workers |-> 0]
    /\ lastOp = NoOp
    /\ streak = 0
    /\ streakFromClosed = TRUE
    /\ probeSuccesses = 0
    /\ failedAt = NoFailureTime
    /\ reopenedAt = NoFailureTime
    /\ openedAt = NoFailureTime
    /\ admittedIn = [w \in Workers |-> Absent]
    /\ admitted = 0
    /\ recorded = 0


\* -------------------------------------------------------------------- Init
Init ==
    /\ batch \in Batches
    /\ pc = "start"
    /\ idx = 1
    /\ event = NullEvent
    /\ attempt = 1
    /\ dlqMessage = [reason |-> "", from |-> ""]
    /\ circuit = InitialCircuit
    /\ collection = {}
    /\ writerMetrics = [totalWrites |-> 0, successfulWrites |-> 0,
                        failedWrites |-> 0, duplicateWrites |-> 0,
                        batchWrites |-> 0]
    /\ metrics = [messagesReceived |-> 0, messagesProcessed |-> 0,
                  messagesFailed |-> 0, batchesProcessed |-> 0,
                  dlqMessages |-> 0, lastProcessedTimestamp |-> NoTimestamp]
    /\ now = 0
    /\ isShuttingDown = FALSE
    /\ running = TRUE
    /\ resolved = << >>
    /\ autoResolved = << >>
    /\ sinkCalls = << >>
    /\ dlqCalls = << >>
    /\ heartbeats = << >>
    /\ backoffs = << >>
    /\ isRunning = TRUE
    /\ healthStatus = NotChecked
    /\ WritersIdle
    /\ DelayIdle
    /\ DlqIdle
    /\ BatchIdle
    /\ ServiceUp

\* ------------------------------------------------------------ processBatch
\* the error.message values of the writeEvent calls made for offset o, in order
errorsOf(calls, o) ==
    LET Threw(call) == call.offset = o /\ call.outcome \in {"fault", "rejected"}
        failed == SelectSeq(calls, Threw)
    IN [i \in 1..Len(failed) |-> failed[i].message]

\* a variant that rethrows the error of the first attempt
thrownFirst(errors) == errors[1]

\* a variant that throws a new error describing the exhaustion
thrownWrapped(errors) == "write failed after retries"

\* the error writeEventWithRetry throws once attempt >= maxAttempts: the one
\* its last writeEvent call raised
thrown(errors) == errors[Len(errors)]

\* a variant that swallows the failure and lets the loop go on
afterDlqFailureSwallow(from) == IF from = "try" THEN "catch" ELSE "continue"

\* where a failed sendToDLQ leaves processBatch: a failure inside the try block
\* is caught by the record's catch block, a failure inside the catch block is
\* rethrown out of processBatch
afterDlqFailure(from) == IF from = "try" THEN "catch" ELSE "throw"

\* a variant that resolves the offset whether or not the append succeeded
resolveAfterDlqAlways(ok, offsets, offset) == Append(offsets, offset)

\* resolveOffset(message.offset) placed after `await this.sendToDLQ(...)`:
\* reached only when the append did not throw
resolveAfterDlq(ok, offsets, offset) ==
    IF ok THEN Append(offsets, offset) ELSE offsets

\* sendToDLQ up to its await: count the message, build it, call send
sendToDLQ(reason, from, failed) ==
    /\ metrics' = [metrics EXCEPT !.dlqMessages = @ + 1,
                                  !.messagesFailed = @ + failed]
    /\ dlqMessage' = [reason |-> reason, from |-> from]
    /\ pc' = "dlqSend"

processBatch ==
    /\ pc = "start"
    /\ metrics' = [metrics EXCEPT !.messagesReceived = @ + Len(batch)]
    /\ pc' = "loop"
    /\ UNCHANGED << batch, idx, event, attempt, dlqMessage, circuit, collection,
                    writerMetrics, now, isShuttingDown, running, resolved,
                    autoResolved, sinkCalls, dlqCalls, heartbeats >>
    /\ UNCHANGED << backoffs, besidePipeline >>

\* the for-loop has run out of messages
LoopExit ==
    /\ pc = "loop"
    /\ idx > Len(batch)
    /\ metrics' = [metrics EXCEPT !.batchesProcessed = @ + 1]
    /\ pc' = "returned"
    /\ UNCHANGED << batch, idx, event, attempt, dlqMessage, circuit, collection,
                    writerMetrics, now, isShuttingDown, running, resolved,
                    autoResolved, sinkCalls, dlqCalls, heartbeats >>
    /\ UNCHANGED << backoffs, besidePipeline >>

\* if (!isRunning() || this.isShuttingDown) break
LoopBreak ==
    /\ pc = "loop"
    /\ idx <= Len(batch)
    /\ ~running \/ isShuttingDown
    /\ metrics' = [metrics EXCEPT !.batchesProcessed = @ + 1]
    /\ pc' = "returned"
    /\ UNCHANGED << batch, idx, event, attempt, dlqMessage, circuit, collection,
                    writerMetrics, now, isShuttingDown, running, resolved,
                    autoResolved, sinkCalls, dlqCalls, heartbeats >>
    /\ UNCHANGED << backoffs, besidePipeline >>

\* parseMessage returned null: sendToDLQ(message, 'Invalid message format')
ParseInvalid ==
    /\ pc = "loop"
    /\ idx <= Len(batch)
    /\ running /\ ~isShuttingDown
    /\ parseMessage(batch[idx]) = NullEvent
    /\ sendToDLQ(InvalidMessageReason, "try", 0)
    /\ UNCHANGED << batch, idx, event, attempt, circuit, collection,
                    writerMetrics, now, isShuttingDown, running, resolved,
                    autoResolved, sinkCalls, dlqCalls, heartbeats >>
    /\ UNCHANGED << backoffs, besidePipeline >>

\* parseMessage returned the event: mongoWriter.writeEventWithRetry(event)
ParseValid ==
    /\ pc = "loop"
    /\ idx <= Len(batch)
    /\ running /\ ~isShuttingDown
    /\ parseMessage(batch[idx]) # NullEvent
    /\ event' = parseMessage(batch[idx])
    /\ attempt' = 1
    /\ pc' = "writeEvent"
    /\ UNCHANGED << batch, idx, dlqMessage, circuit, collection, writerMetrics,
                    metrics, now, isShuttingDown, running, resolved,
                    autoResolved, sinkCalls, dlqCalls, heartbeats >>
    /\ UNCHANGED << backoffs, besidePipeline >>

\* a variant that gives up one attempt later
RetryCatchOneMore(calls) ==
    IF attempt > maxAttempts
    THEN /\ sendToDLQ(thrown(errorsOf(calls, idx)), "catch", 1)
         /\ UNCHANGED backoffs
    ELSE /\ backoffs' = Append(backoffs,
                [offset |-> idx, attempt |-> attempt,
                 delay |-> delay(initialDelay, backoffMultiplier, maxDelay,
                                 attempt)])
         /\ pc' = "backoff"
         /\ UNCHANGED << metrics, dlqMessage >>

\* the catch block of writeEventWithRetry, entered with the calls made so far:
\* rethrow into processBatch's catch block, or wait and try again
RetryCatch(calls) ==
    IF attempt >= maxAttempts
    THEN /\ sendToDLQ(thrown(errorsOf(calls, idx)), "catch", 1)
         /\ UNCHANGED backoffs
    ELSE /\ backoffs' = Append(backoffs,
                [offset |-> idx, attempt |-> attempt,
                 delay |-> delay(initialDelay, backoffMultiplier, maxDelay,
                                 attempt)])
         /\ pc' = "backoff"
         /\ UNCHANGED << metrics, dlqMessage >>

\* what Date.now() may return when canExecute reads it (it reads the clock in
\* OPEN only), given the last reading
ClockAtGate == IF circuit.circuitState = OPEN THEN now..MaxTime ELSE {now}

\* writeEvent: canExecute() is false, the call throws before its try block
WriteEventRejected ==
    /\ pc = "writeEvent"
    /\ \E t \in ClockAtGate :
         /\ ~canExecute(circuit, t).allowed
         /\ circuit' = canExecute(circuit, t).circuit
         /\ now' = t
    /\ sinkCalls' = Append(sinkCalls, [offset |-> idx, outcome |-> "rejected",
                                       message |-> CircuitOpenMessage])
    /\ RetryCatch(sinkCalls')
    /\ UNCHANGED << batch, idx, event, attempt, collection, writerMetrics,
                    isShuttingDown, running, resolved, autoResolved, dlqCalls,
                    heartbeats >>
    /\ UNCHANGED besidePipeline

\* writeEvent: canExecute() is true, totalWrites++, updateOne is sent
WriteEventAdmitted ==
    /\ pc = "writeEvent"
    /\ \E t \in ClockAtGate :
         /\ canExecute(circuit, t).allowed
         /\ circuit' = canExecute(circuit, t).circuit
         /\ now' = t
    /\ writerMetrics' = [writerMetrics EXCEPT !.totalWrites = @ + 1]
    /\ pc' = "updateOne"
    /\ UNCHANGED << batch, idx, event, attempt, dlqMessage, collection, metrics,
                    isShuttingDown, running, resolved, autoResolved,
                    sinkCalls, dlqCalls, heartbeats >>
    /\ UNCHANGED << backoffs, besidePipeline >>

\* updateOne returned: count, recordSuccess, return the result; processBatch
\* counts the message, stamps it (with the clock as last read), resolves its
\* offset and calls heartbeat()
UpdateOneReturns ==
    /\ pc = "updateOne"
    /\ LET r == updateOne(collection, document(event))
           result == writeResult(r.upsertedCount)
       IN /\ collection' = r.collection
          /\ writerMetrics' =
                IF result.inserted
                THEN [writerMetrics EXCEPT !.successfulWrites = @ + 1]
                ELSE [writerMetrics EXCEPT !.duplicateWrites = @ + 1]
          /\ circuit' = recordSuccess(circuit)
          /\ sinkCalls' = Append(sinkCalls,
                [offset |-> idx,
                 outcome |-> IF result.inserted THEN "inserted" ELSE "duplicate",
                 message |-> ""])
          /\ metrics' = IF result.success
                        THEN [metrics EXCEPT !.messagesProcessed = @ + 1,
                                             !.lastProcessedTimestamp = now]
                        ELSE metrics
    /\ resolved' = Append(resolved, idx)
    /\ pc' = "heartbeat"
    /\ UNCHANGED << batch, idx, event, attempt, dlqMessage, now, isShuttingDown,
                    running, autoResolved, dlqCalls, heartbeats >>
    /\ UNCHANGED << backoffs, besidePipeline >>

\* updateOne threw: failedWrites++, recordFailure (which reads the clock),
\* rethrow to the retry
UpdateOneFaults ==
    /\ pc = "updateOne"
    /\ writerMetrics' = [writerMetrics EXCEPT !.failedWrites = @ + 1]
    /\ \E t \in now..MaxTime :
         /\ circuit' = recordFailure(circuit, t)
         /\ now' = t
    /\ sinkCalls' = Append(sinkCalls, [offset |-> idx, outcome |-> "fault",
                                       message |-> StoreFaultMessage])
    /\ RetryCatch(sinkCalls')
    /\ UNCHANGED << batch, idx, event, attempt, collection, isShuttingDown,
                    running, resolved, autoResolved, dlqCalls, heartbeats >>
    /\ UNCHANGED besidePipeline

\* the backoff timer fired: writeEventWithRetry(event, attempt + 1)
BackoffElapsed ==
    /\ pc = "backoff"
    /\ attempt' = attempt + 1
    /\ pc' = "writeEvent"
    /\ UNCHANGED << batch, idx, event, dlqMessage, circuit, collection,
                    writerMetrics, metrics, now, isShuttingDown, running,
                    resolved, autoResolved, sinkCalls, dlqCalls, heartbeats >>
    /\ UNCHANGED << backoffs, besidePipeline >>

\* heartbeat() returned: next message
HeartbeatReturns ==
    /\ pc = "heartbeat"
    /\ heartbeats' = Append(heartbeats, [offset |-> idx, ok |-> TRUE])
    /\ idx' = idx + 1
    /\ pc' = "loop"
    /\ UNCHANGED << batch, event, attempt, dlqMessage, circuit, collection,
                    writerMetrics, metrics, now, isShuttingDown, running,
                    resolved, autoResolved, sinkCalls, dlqCalls >>
    /\ UNCHANGED << backoffs, besidePipeline >>

FailedCalls(calls) == Cardinality({ i \in 1..Len(calls) : ~calls[i].ok })

\* heartbeat() threw inside the try block: the catch block dead-letters the
\* message with the heartbeat error's message
HeartbeatThrows ==
    /\ pc = "heartbeat"
    /\ FailedCalls(heartbeats) < MaxHeartbeatFaults
    /\ heartbeats' = Append(heartbeats, [offset |-> idx, ok |-> FALSE])
    /\ sendToDLQ(HeartbeatMessage, "catch", 1)
    /\ UNCHANGED << batch, idx, event, attempt, circuit, collection,
                    writerMetrics, now, isShuttingDown, running, resolved,
                    autoResolved, sinkCalls, dlqCalls >>
    /\ UNCHANGED << backoffs, besidePipeline >>

\* dlqProducer.send returned: resolveOffset, then the next message
DlqSendReturns ==
    /\ pc = "dlqSend"
    /\ dlqCalls' = Append(dlqCalls, [offset |-> idx, reason |-> dlqMessage.reason,
                                     from |-> dlqMessage.from, ok |-> TRUE])
    /\ resolved' = resolveAfterDlq(TRUE, resolved, idx)
    /\ idx' = idx + 1
    /\ pc' = "loop"
    /\ UNCHANGED << batch, event, attempt, dlqMessage, circuit, collection,
                    writerMetrics, metrics, now, isShuttingDown, running,
                    autoResolved, sinkCalls, heartbeats >>
    /\ UNCHANGED << backoffs, besidePipeline >>

\* dlqProducer.send threw; sendToDLQ rethrows it
DlqSendThrows ==
    /\ pc = "dlqSend"
    /\ FailedCalls(dlqCalls) < MaxDlqFaults
    /\ dlqCalls' = Append(dlqCalls, [offset |-> idx, reason |-> dlqMessage.reason,
                                     from |-> dlqMessage.from, ok |-> FALSE])
    /\ resolved' = resolveAfterDlq(FALSE, resolved, idx)
    /\ LET next == afterDlqFailure(dlqMessage.from) IN
         IF next = "catch"
         THEN /\ sendToDLQ(DlqSendMessage, "catch", 1)
              /\ idx' = idx
         ELSE IF next = "throw"
              THEN /\ pc' = "threw"
                   /\ idx' = idx
                   /\ UNCHANGED << metrics, dlqMessage >>
              ELSE /\ pc' = "loop"
                   /\ idx' = idx + 1
                   /\ UNCHANGED << metrics, dlqMessage >>
    /\ UNCHANGED << batch, event, attempt, circuit, collection, writerMetrics,
                    now, isShuttingDown, running, autoResolved, sinkCalls,
                    heartbeats >>
    /\ UNCHANGED << backoffs, besidePipeline >>

\* the runner after eachBatch: on a normal return with eachBatchAutoResolve it
\* resolves batch.lastOffset(); on a throw it resolves nothing
EachBatchDone ==
    /\ pc \in {"returned", "threw"}
    /\ autoResolved' = IF pc = "returned" /\ eachBatchAutoResolve
                       THEN << Len(batch) >>
                       ELSE autoResolved
    /\ pc' = IF pc = "returned" THEN "done" ELSE "failed"
    /\ UNCHANGED << batch, idx, event, attempt, dlqMessage, circuit, collection,
                    writerMetrics, metrics, now, isShuttingDown, running,
                    resolved, sinkCalls, dlqCalls, heartbeats >>
    /\ UNCHANGED << backoffs, besidePipeline >>

\* ------------------------------------------------------------- environment
\* processBatch is suspended on an await (or not yet called): only then can
\* the event loop run anything else
Suspended == pc \in {"start", "updateOne", "backoff", "heartbeat", "dlqSend"}

\* KafkaEventConsumer.shutdown() sets the flag
Shutdown ==
    /\ ~isShuttingDown
    /\ Suspended
    /\ isShuttingDown' = TRUE
    /\ UNCHANGED << batch, pc, idx, event, attempt, dlqMessage, circuit,
                    collection, writerMetrics, metrics, now, running, resolved,
                    autoResolved, sinkCalls, dlqCalls, heartbeats >>
    /\ UNCHANGED << backoffs, besidePipeline >>

\* consumer.disconnect() stops the runner: isRunning() turns false
RunnerStops ==
    /\ isShuttingDown
    /\ running
    /\ Suspended
    /\ running' = FALSE
    /\ UNCHANGED << batch, pc, idx, event, attempt, dlqMessage, circuit,
                    collection, writerMetrics, metrics, now, isShuttingDown,
                    resolved, autoResolved, sinkCalls, dlqCalls, heartbeats >>
    /\ UNCHANGED << backoffs, besidePipeline >>

Next ==
    \/ processBatch
    \/ LoopExit
    \/ LoopBreak
    \/ ParseInvalid
    \/ ParseValid
    \/ WriteEventRejected
    \/ WriteEventAdmitted
    \/ UpdateOneReturns
    \/ UpdateOneFaults
    \/ BackoffElapsed
    \/ HeartbeatReturns
    \/ HeartbeatThrows
    \/ DlqSendReturns
    \/ DlqSendThrows
    \/ EachBatchDone
    \/ Shutdown
    \/ RunnerStops

Spec == Init /\ [][Next]_vars


\* ------------------------------------------- workers sharing one MongoDBWriter
\* processBatch is not running
PipelineIdle ==
    /\ batch = << >>
    /\ pc = "idle"
    /\ idx = 1
    /\ event = NullEvent
    /\ attempt = 1
    /\ dlqMessage = [reason |-> "", from |-> ""]
    /\ isShuttingDown = FALSE
    /\ running = TRUE
    /\ resolved = << >>
    /\ autoResolved = << >>
    /\ sinkCalls = << >>
    /\ dlqCalls = << >>
    /\ heartbeats = << >>
    /\ backoffs = << >>

\* the writer and the consumer's counters as constructed
Constructed ==
    /\ circuit = InitialCircuit
    /\ collection = {}
    /\ writerMetrics = [totalWrites |-> 0, successfulWrites |-> 0,
                        failedWrites |-> 0, duplicateWrites |-> 0,
                        batchWrites |-> 0]
    /\ metrics = [messagesReceived |-> 0, messagesProcessed |-> 0,
                  messagesFailed |-> 0, batchesProcessed |-> 0,
                  dlqMessages |-> 0, lastProcessedTimestamp |-> NoTimestamp]

\* the event worker w writes, one id per worker: its first write inserts, its
\* later ones are duplicates
WorkerEvent(w) == Value(TRUE, ToString(w), "t", "s", "1", Absent)

InitWriters ==
    /\ PipelineIdle
    /\ Constructed
    /\ now = 0
    /\ isRunning = TRUE
    /\ healthStatus = NotChecked
    /\ WritersIdle
    /\ DelayIdle
    /\ DlqIdle
    /\ BatchIdle
    /\ ServiceUp

\* what Date.now() may return when a worker's canExecute reads it
WorkerClockAtGate == IF circuit.circuitState = OPEN THEN now..MaxClock ELSE {now}

\* a variant in which only an insert counts as a success of the store
recordedOnInsertOnly(upsertedCount) ==
    IF upsertedCount > 0 THEN << "recordSuccess" >> ELSE << >>

\* the breaker calls writeEvent makes once updateOne has returned: both
\* branches, inserted and duplicate, call this.recordSuccess()
recordedOnUpsert(upsertedCount) == << "recordSuccess" >>

\* the circuit after those calls
outcomeRecorded(c, upsertedCount) ==
    IF recordedOnUpsert(upsertedCount) = << >> THEN c ELSE recordSuccess(c)

\* a variant in which the catch block writes back the failure count the call
\* read when it was admitted, plus one
failureRecordedStale(c, seenCount, t) ==
    recordFailure([c EXCEPT !.failureCount = seenCount], t)

\* the catch block of writeEvent calls this.recordFailure(): it reads
\* this.failureCount when it runs, not when the call was admitted
failureRecorded(c, seenCount, t) == recordFailure(c, t)

\* a worker calls writeEvent and canExecute() is false: the call throws
WorkerRejected(w) ==
    /\ wpc[w] = "idle"
    /\ \E t \in WorkerClockAtGate :
         /\ ~canExecute(circuit, t).allowed
         /\ circuit' = canExecute(circuit, t).circuit
         /\ now' = t
         /\ lastOp' = [op |-> "canExecute", before |-> circuit, t |-> t,
                       allowed |-> FALSE, call |-> "rejected",
                       admittedIn |-> Absent]
    /\ UNCHANGED << pipelineVars, collection, writerMetrics, metrics, wpc, wev,
                    seen, streak, streakFromClosed, probeSuccesses, failedAt,
                    reopenedAt, openedAt, admittedIn, admitted, recorded,
                    healthVars, delayVars, dlqVars, batchVars, lifeVars >>

\* a worker calls writeEvent and canExecute() is true: totalWrites++, updateOne
\* is sent and the call is suspended on it
WorkerAdmitted(w) ==
    /\ wpc[w] = "idle"
    /\ writerMetrics.totalWrites < MaxCalls
    /\ \E t \in WorkerClockAtGate :
         /\ canExecute(circuit, t).allowed
         /\ circuit' = canExecute(circuit, t).circuit
         /\ now' = t
         /\ lastOp' = [op |-> "canExecute", before |-> circuit, t |-> t,
                       allowed |-> TRUE, call |-> "pending",
                       admittedIn |-> canExecute(circuit, t).circuit.circuitState]
         /\ admittedIn' = [admittedIn EXCEPT
                             ![w] = canExecute(circuit, t).circuit.circuitState]
    /\ admitted' = admitted + 1
    /\ probeSuccesses' = IF circuit.circuitState = OPEN THEN 0 ELSE probeSuccesses
    /\ writerMetrics' = [writerMetrics EXCEPT !.totalWrites = @ + 1]
    /\ wev' = [wev EXCEPT ![w] = WorkerEvent(w)]
    /\ seen' = [seen EXCEPT ![w] = circuit.failureCount]
    /\ wpc' = [wpc EXCEPT ![w] = "updateOne"]
    /\ UNCHANGED << pipelineVars, collection, metrics, streak, streakFromClosed,
                    failedAt, reopenedAt, openedAt, recorded, healthVars,
                    delayVars, dlqVars, batchVars, lifeVars >>

\* a worker's updateOne returned: count the write, recordSuccess, return
WorkerUpdateOneReturns(w) ==
    /\ wpc[w] = "updateOne"
    /\ LET r == updateOne(collection, document(wev[w]))
           result == writeResult(r.upsertedCount)
       IN /\ collection' = r.collection
          /\ writerMetrics' =
                IF result.inserted
                THEN [writerMetrics EXCEPT !.successfulWrites = @ + 1]
                ELSE [writerMetrics EXCEPT !.duplicateWrites = @ + 1]
          /\ circuit' = outcomeRecorded(circuit, r.upsertedCount)
          /\ recorded' = recorded + Len(recordedOnUpsert(r.upsertedCount))
          /\ lastOp' = [op |-> IF recordedOnUpsert(r.upsertedCount) = << >>
                               THEN "none"
                               ELSE recordedOnUpsert(r.upsertedCount)[1],
                        before |-> circuit, t |-> now, allowed |-> TRUE,
                        call |-> IF result.inserted THEN "inserted"
                                 ELSE "duplicate",
                        admittedIn |-> admittedIn[w]]
    /\ streak' = 0
    /\ streakFromClosed' = (circuit'.circuitState = CLOSED)
    /\ probeSuccesses' = IF circuit.circuitState = HALF_OPEN
                         THEN probeSuccesses + 1
                         ELSE 0
    /\ wpc' = [wpc EXCEPT ![w] = "idle"]
    /\ wev' = [wev EXCEPT ![w] = NullEvent]
    /\ seen' = [seen EXCEPT ![w] = 0]
    /\ admittedIn' = [admittedIn EXCEPT ![w] = Absent]
    /\ UNCHANGED << pipelineVars, metrics, now, failedAt, reopenedAt, openedAt,
                    admitted, healthVars, delayVars, dlqVars, batchVars, lifeVars >>

\* a worker's updateOne threw: failedWrites++, recordFailure, rethrow
WorkerUpdateOneFaults(w) ==
    /\ wpc[w] = "updateOne"
    /\ writerMetrics' = [writerMetrics EXCEPT !.failedWrites = @ + 1]
    /\ \E t \in now..MaxClock :
         /\ circuit' = failureRecorded(circuit, seen[w], t)
         /\ now' = t
         /\ lastOp' = [op |-> "recordFailure", before |-> circuit, t |-> t,
                       allowed |-> TRUE, call |-> "fault",
                       admittedIn |-> admittedIn[w]]
         /\ failedAt' = t
         /\ openedAt' = IF /\ circuit.circuitState # OPEN
                            /\ failureRecorded(circuit, seen[w], t).circuitState = OPEN
                         THEN t
                         ELSE openedAt
         /\ reopenedAt' = IF circuit.circuitState = HALF_OPEN THEN t
                          ELSE reopenedAt
    /\ streak' = streak + 1
    /\ probeSuccesses' = 0
    /\ wpc' = [wpc EXCEPT ![w] = "idle"]
    /\ wev' = [wev EXCEPT ![w] = NullEvent]
    /\ seen' = [seen EXCEPT ![w] = 0]
    /\ admittedIn' = [admittedIn EXCEPT ![w] = Absent]
    /\ recorded' = recorded + 1
    /\ UNCHANGED << pipelineVars, collection, metrics, streakFromClosed,
                    admitted, healthVars, delayVars, dlqVars, batchVars, lifeVars >>

NextWriters ==
    \E w \in Workers :
        \/ WorkerRejected(w)
        \/ WorkerAdmitted(w)
        \/ WorkerUpdateOneReturns(w)
        \/ WorkerUpdateOneFaults(w)

SpecWriters == InitWriters /\ [][NextWriters]_vars


\* ------------------------------------------------------- reading the logs
Offsets == 1..Len(batch)
ResolvedOffsets == { resolved[i] : i \in 1..Len(resolved) }

\* a writeEvent call for offset o returned a result (insert or duplicate)
WriteSucceeded(o) ==
    \E i \in 1..Len(sinkCalls) :
        sinkCalls[i].offset = o /\ sinkCalls[i].outcome \in {"inserted", "duplicate"}

\* a dead-letter append for offset o completed
DeadLettered(o) ==
    \E i \in 1..Len(dlqCalls) : dlqCalls[i].offset = o /\ dlqCalls[i].ok

\* a dead-letter append for offset o failed
DlqFailed(o) ==
    \E i \in 1..Len(dlqCalls) : dlqCalls[i].offset = o /\ ~dlqCalls[i].ok

\* every one of the maxAttempts writeEvent calls for offset o failed
Exhausted(o) ==
    /\ Len(errorsOf(sinkCalls, o)) = maxAttempts
    /\ ~WriteSucceeded(o)

\* offset o counts as consumed: processBatch or the runner resolved it or a
\* later offset of the partition
Committed(o) ==
    \/ \E i \in 1..Len(resolved) : resolved[i] >= o
    \/ \E i \in 1..Len(autoResolved) : autoResolved[i] >= o

\* the dead-letter appends started for offset o: those that ended, then the
\* one in flight
DlqAttempts(o) ==
    LET For(call) == call.offset = o
        calls == SelectSeq(dlqCalls, For)
        ended == [i \in 1..Len(calls) |->
                     [reason |-> calls[i].reason, from |-> calls[i].from]]
    IN IF pc = "dlqSend" /\ idx = o THEN Append(ended, dlqMessage) ELSE ended

Ended == pc \in {"returned", "threw", "done", "failed"}
EndedWithError == pc \in {"threw", "failed"}

\* ------------------------------------------------------------------ claims

\* C1: processBatch passes an offset to resolveOffset only after the record
\* was durably handled: a writeEvent call for it returned a result (insert or
\* duplicate) or a dead-letter append for it completed.
C1_CommitOnlyAfterHandled ==
    \A i \in 1..Len(resolved) :
        WriteSucceeded(resolved[i]) \/ DeadLettered(resolved[i])

\* C1 witness: one offset resolved after a write, the next after a dead-letter
\* append that followed exhausted retries.
C1_Witness ==
    /\ Len(resolved) = 2
    /\ WriteSucceeded(resolved[1])
    /\ Exhausted(resolved[2]) /\ DeadLettered(resolved[2])

\* C2 (as claimed): when the loop breaks on shutdown, no record from the one it
\* stopped at onwards is started, and none of their offsets is committed.
C2_RemainderNotCommitted ==
    (pc \in {"returned", "done"} /\ idx <= Len(batch)) =>
        \A o \in idx..Len(batch) :
            /\ errorsOf(sinkCalls, o) = << >> /\ ~WriteSucceeded(o)
            /\ DlqAttempts(o) = << >>
            /\ ~Committed(o)

\* C3 (as claimed): the offsets processBatch resolves are 1, 2, 3, ... in
\* order, each exactly once.
C3_ResolvedIsPrefix ==
    \A i \in 1..Len(resolved) : resolved[i] = i

\* C4: once a valid record's writes are exhausted and a dead-letter append for
\* it has failed, processBatch has ended with the error at that record, and
\* neither its offset nor any later offset is committed.
C4_DlqFailureAfterExhaustion ==
    \A o \in Offsets :
        (Exhausted(o) /\ DlqFailed(o)) =>
            /\ EndedWithError
            /\ idx = o
            /\ \A q \in o..Len(batch) : ~Committed(q)
            /\ \A q \in (o + 1)..Len(batch) :
                   errorsOf(sinkCalls, q) = << >> /\ DlqAttempts(q) = << >>

\* C4 witness: the second record of a batch exhausted its writes, its
\* dead-letter append failed, and the runner has seen the error.
C4_Witness ==
    /\ pc = "failed"
    /\ idx = 2
    /\ Exhausted(2) /\ DlqFailed(2)
    /\ resolved = << 1 >>

\* C5 (as claimed): at most one dead-letter append is started per record, and
\* a failed append ends processBatch at that record with its offset
\* uncommitted.
C5_DlqNeverRetried ==
    \A o \in Offsets :
        /\ Len(DlqAttempts(o)) <= 1
        /\ DlqFailed(o) => (EndedWithError /\ idx = o /\ ~Committed(o))


\* a record is valid iff it decodes and id, type, source and time are all
\* present and non-empty
IsValidRecord(v) ==
    /\ v.decodable
    /\ v.id # Absent /\ v.type # Absent /\ v.source # Absent /\ v.time # Absent

\* processBatch is inside writeEventWithRetry for offset o
InSink(o) == idx = o /\ pc \in {"writeEvent", "updateOne", "backoff"}

\* some writeEvent call was made for offset o
SinkCalled(o) == \E i \in 1..Len(sinkCalls) : sinkCalls[i].offset = o

\* the first dead-letter append for offset o completed
FirstDlqOk(o) ==
    \E i \in 1..Len(dlqCalls) :
        /\ dlqCalls[i].offset = o /\ dlqCalls[i].ok
        /\ \A j \in 1..(i - 1) : dlqCalls[j].offset # o

\* processBatch has taken up the record at offset o
Started(o) == idx > o \/ (idx = o /\ pc \notin {"start", "loop", "returned", "done"})

\* every invalid record stays out of the sink, has its first dead-letter
\* append made from the try block with the given reason, and, when that append
\* completes, has its offset resolved and the loop moved on
InvalidRecordHandled(reason) ==
    \A o \in Offsets :
        ~IsValidRecord(batch[o]) =>
            /\ ~SinkCalled(o) /\ ~InSink(o)
            /\ Started(o) =>
                   /\ DlqAttempts(o) # << >>
                   /\ DlqAttempts(o)[1] = [reason |-> reason, from |-> "try"]
            /\ FirstDlqOk(o) => (o \in ResolvedOffsets /\ idx > o)

SuccessfulCalls ==
    { i \in 1..Len(sinkCalls) : sinkCalls[i].outcome \in {"inserted", "duplicate"} }

\* C7 (as claimed): among the successful writes, the first one of an id
\* reports inserted, every later one of that id reports duplicate, and the
\* collection holds exactly one document for the id, with the content of the
\* first write.
C7_IdempotentPerId ==
    \A i \in SuccessfulCalls :
        LET id == batch[sinkCalls[i].offset].id
            earlier == { j \in SuccessfulCalls :
                            j < i /\ batch[sinkCalls[j].offset].id = id }
            first == IF earlier = {} THEN i
                     ELSE CHOOSE j \in earlier : \A k \in earlier : j <= k
            docs == { d \in collection : d.content.id = id }
        IN /\ sinkCalls[i].outcome = IF earlier = {} THEN "inserted" ELSE "duplicate"
           /\ Cardinality(docs) = 1
           /\ \A d \in docs : d.content = batch[sinkCalls[first].offset]

\* the message of the error the last writeEvent call for offset o raised
FinalErrorMessage(o) ==
    LET calls == { i \in 1..Len(sinkCalls) : sinkCalls[i].offset = o }
        last == CHOOSE i \in calls : \A j \in calls : j <= i
    IN sinkCalls[last].message

\* C8: once all maxAttempts writes of a record have failed (store fault or
\* circuit-open rejection alike), its dead-letter append is made with the
\* final attempt's error message as reason, and when that append completes the
\* offset is resolved and the loop moves on.
C8_ExhaustedIsDeadLettered ==
    \A o \in Offsets :
        Exhausted(o) =>
            /\ DlqAttempts(o) # << >>
            /\ DlqAttempts(o)[1] = [reason |-> FinalErrorMessage(o), from |-> "catch"]
            /\ FirstDlqOk(o) => (o \in ResolvedOffsets /\ idx > o)

\* C8 witness: the second record failed by two store faults and then a
\* circuit-open rejection, was dead-lettered and had its offset resolved.
C8_Witness ==
    /\ Len(batch) = 2
    /\ errorsOf(sinkCalls, 2) =
           << StoreFaultMessage, StoreFaultMessage, CircuitOpenMessage >>
    /\ Exhausted(2) /\ FirstDlqOk(2)
    /\ 2 \in ResolvedOffsets
    /\ pc = "done"

\* a finished run over valid records with pairwise distinct ids in which the
\* store never faulted and no shutdown was requested
HealthyRun ==
    /\ Ended
    /\ \A o \in Offsets : IsValidRecord(batch[o])
    /\ \A o, q \in Offsets : o # q => batch[o].id # batch[q].id
    /\ \A i \in 1..Len(sinkCalls) : sinkCalls[i].outcome # "fault"
    /\ running /\ ~isShuttingDown

\* C9 (as claimed): a healthy run ends normally with every record stored,
\* every offset resolved once in arrival order, and no dead-letter append.
C9_HealthyBatch ==
    HealthyRun =>
        /\ ~EndedWithError
        /\ \A o \in Offsets : \E d \in collection : d.content = batch[o]
        /\ resolved = [i \in Offsets |-> i]
        /\ dlqCalls = << >>
        /\ metrics.dlqMessages = 0

\* C10: a writeEvent call made in OPEN before timeoutMs has elapsed since the
\* last failure throws the circuit-open error, sends nothing to the store, and
\* leaves circuitState, failureCount, successCount and lastFailureTime as
\* they were.
C10_OpenRejectsWithoutEffect ==
    [][ ( /\ pc = "writeEvent" /\ pc' # "writeEvent"
          /\ circuit.circuitState = OPEN
          /\ timeSinceLastFailure(circuit, now') < timeoutMs )
        => ( /\ circuit' = circuit
             /\ pc' # "updateOne"
             /\ collection' = collection
             /\ writerMetrics' = writerMetrics
             /\ Len(sinkCalls') = Len(sinkCalls) + 1
             /\ sinkCalls'[Len(sinkCalls')] =
                    [offset |-> idx, outcome |-> "rejected",
                     message |-> CircuitOpenMessage] ) ]_vars

\* C10 witness: a call was rejected by the open circuit some time after the
\* failure that opened it.
C10_Witness ==
    /\ \E i \in 1..Len(sinkCalls) : sinkCalls[i].outcome = "rejected"
    /\ circuit.circuitState = OPEN
    /\ now > circuit.lastFailureTime

\* ---------------------------------------------------------------- C11..C15
\* the breaker under the calls of the workers (SpecWriters)

\* lastOp was a call of the named operation
Did(op) == lastOp.op = op
\* the state the circuit was in when lastOp was called
Before == lastOp.before.circuitState

\* C11: failureThreshold consecutive recordFailure calls (no recordSuccess in
\* between) leave the circuit OPEN, and while fewer than timeoutMs ticks have
\* passed since the last of them canExecute returns false; fewer than
\* failureThreshold consecutive failures, counted from a recordSuccess that
\* left the circuit CLOSED (or from construction), leave it CLOSED
C11_OpensAtThreshold ==
    /\ streak >= failureThreshold => circuit.circuitState # CLOSED
    /\ (Did("recordFailure") /\ streak >= failureThreshold)
           => circuit.circuitState = OPEN
    /\ (Did("canExecute") /\ streak >= failureThreshold
            /\ lastOp.t - failedAt < timeoutMs)
           => (~lastOp.allowed /\ circuit.circuitState = OPEN)
    /\ (streakFromClosed /\ streak < failureThreshold)
           => circuit.circuitState = CLOSED

\* the threshold was reached and a call was then turned away
C11_Witness ==
    /\ Did("canExecute")
    /\ ~lastOp.allowed
    /\ streak = failureThreshold
    /\ streakFromClosed

\* C12: a canExecute call in OPEN at or after timeoutMs ticks since the last
\* failure moves the circuit to HALF_OPEN with successCount 0 and returns
\* true; nothing else takes the circuit out of OPEN
C12_OpenLeftOnlyByTimedProbe ==
    /\ (Before = OPEN /\ circuit.circuitState # OPEN)
           => /\ Did("canExecute")
              /\ lastOp.allowed
              /\ lastOp.t - failedAt >= timeoutMs
              /\ circuit.circuitState = HALF_OPEN
              /\ circuit.successCount = 0
    /\ (Did("canExecute") /\ Before = OPEN /\ lastOp.t - failedAt >= timeoutMs)
           => /\ lastOp.allowed
              /\ circuit.circuitState = HALF_OPEN
              /\ circuit.successCount = 0

\* an OPEN circuit that still held a success count was probed
C12_Witness ==
    /\ Did("canExecute")
    /\ Before = OPEN
    /\ lastOp.before.successCount > 0
    /\ circuit.circuitState = HALF_OPEN

\* C13: HALF_OPEN turns CLOSED exactly at the successThreshold-th recordSuccess
\* made since HALF_OPEN was entered, and the circuit then has failureCount 0
\* and successCount 0
C13_ClosesAfterThresholdProbes ==
    /\ circuit.circuitState = HALF_OPEN => probeSuccesses < successThreshold
    /\ (Before = HALF_OPEN /\ Did("recordSuccess"))
           => (circuit.circuitState = CLOSED
                   <=> probeSuccesses = successThreshold)
    /\ (Before # CLOSED /\ circuit.circuitState = CLOSED)
           => /\ Before = HALF_OPEN
              /\ Did("recordSuccess")
              /\ circuit.failureCount = 0
              /\ circuit.successCount = 0

\* the circuit closed out of HALF_OPEN
C13_Witness ==
    /\ Before = HALF_OPEN
    /\ circuit.circuitState = CLOSED
    /\ probeSuccesses = successThreshold

\* C14: a recordFailure in HALF_OPEN leaves the circuit OPEN with
\* lastFailureTime at the reading of that call, and no call is admitted out of
\* OPEN before timeoutMs ticks have passed since that failure
C14_HalfOpenFailureReopens ==
    /\ (Did("recordFailure") /\ Before = HALF_OPEN)
           => /\ circuit.circuitState = OPEN
              /\ circuit.lastFailureTime = lastOp.t
    /\ (Did("canExecute") /\ lastOp.allowed /\ Before = OPEN
            /\ reopenedAt # NoFailureTime)
           => lastOp.t - reopenedAt >= timeoutMs

\* a probe failed when the failure count had been reset by a success
C14_Witness ==
    /\ Did("recordFailure")
    /\ Before = HALF_OPEN
    /\ lastOp.before.failureCount = 0
    /\ circuit.circuitState = OPEN

\* the circuit was probed again after a probe had failed
ReprobedAfterFailedProbe ==
    /\ Did("canExecute")
    /\ lastOp.allowed
    /\ Before = OPEN
    /\ reopenedAt # NoFailureTime

\* C15: with the workers' calls interleaving, failureCount is the number of
\* recordFailure calls since the last recordSuccess, and a recordFailure in
\* CLOSED opens the circuit exactly when that number reaches failureThreshold
C15_NoLostOutcome ==
    /\ circuit.failureCount = streak
    /\ (Did("recordFailure") /\ Before = CLOSED)
           => (circuit.circuitState = OPEN <=> streak = failureThreshold)

\* a failure opened the circuit while another worker's call was in flight,
\* admitted before the failing one
C15_Witness ==
    /\ Did("recordFailure")
    /\ Before = CLOSED
    /\ circuit.circuitState = OPEN
    /\ \E w \in Workers : wpc[w] = "updateOne" /\ seen[w] < failureThreshold - 1

\* ---------------------------------------------------------------- C16, C17
\* the pipeline on the batches that matter to the retry: records that insert,
\* records that repeat an id, and a record the sink is never called for
RetryValues ==
    { Value(TRUE, "a", "t", "s", "1", Absent),
      Value(TRUE, "a", "u", "s", "1", Absent),
      Value(TRUE, "b", "t", "s", "1", Absent),
      Value(FALSE, Absent, Absent, Absent, Absent, Absent) }

RetryBatches == UNION { [1..n -> RetryValues] : n \in 1..MaxBatch }

InitRetry ==
    /\ Init
    /\ batch \in RetryBatches

SpecRetry == InitRetry /\ [][Next]_vars

\* the writeEvent calls made for offset o, in order
CallsOf(o) ==
    LET For(call) == call.offset = o
    IN SelectSeq(sinkCalls, For)

\* the attempt numbers after which the retry started a backoff timer for
\* offset o, in order
BackoffsOf(o) ==
    LET For(timer) == timer.offset = o
        timers == SelectSeq(backoffs, For)
    IN [i \in 1..Len(timers) |-> timers[i].attempt]

Failed(call) == call.outcome \in {"fault", "rejected"}

\* C16: writeEventWithRetry makes at most maxAttempts writeEvent calls for a
\* record, its k-th call as attempt k, and none after a call that succeeded;
\* when n calls failed and the next one succeeded it made n + 1 calls, waited
\* n times and returned the result to processBatch, which counted the record
\* and resolved its offset
C16_StopsAtSuccessOrLimit ==
    \A o \in Offsets :
        LET calls == CallsOf(o)
            n == Len(errorsOf(sinkCalls, o))
        IN /\ Len(calls) <= maxAttempts
           /\ \A i \in 1..Len(calls) : i < Len(calls) => Failed(calls[i])
           /\ (idx = o /\ pc \in {"writeEvent", "updateOne"})
                  => attempt = Len(calls) + 1
           /\ WriteSucceeded(o)
                  => /\ n < maxAttempts
                     /\ Len(calls) = n + 1
                     /\ BackoffsOf(o) = [k \in 1..n |-> k]
                     /\ o \in ResolvedOffsets

\* a record was stored by its last permitted attempt
C16_Witness ==
    \E o \in Offsets :
        /\ WriteSucceeded(o)
        /\ Len(errorsOf(sinkCalls, o)) = maxAttempts - 1
        /\ metrics.messagesProcessed > 0

\* the reason of the dead-letter append processBatch's catch block started
\* for offset o: the message of the error writeEventWithRetry threw
CaughtMessage(o) == DlqAttempts(o)[1].reason

\* C17: when maxAttempts writeEvent calls for a record have failed, no further
\* call is made, the error processBatch catches is the one the last call
\* raised, and only maxAttempts - 1 backoff timers were started (none after
\* the last call)
C17_FailsWithFinalError ==
    \A o \in Offsets :
        Exhausted(o) =>
            /\ Len(CallsOf(o)) = maxAttempts
            /\ \A i \in 1..maxAttempts : Failed(CallsOf(o)[i])
            /\ BackoffsOf(o) = [k \in 1..(maxAttempts - 1) |-> k]
            /\ ~(idx = o /\ pc \in {"backoff", "writeEvent", "updateOne"})
            /\ DlqAttempts(o) # << >>
            /\ CaughtMessage(o) = CallsOf(o)[maxAttempts].message

\* the attempts of a record failed with different errors, the last one a
\* circuit-open rejection after two store faults
C17_Witness ==
    \E o \in Offsets :
        /\ Exhausted(o)
        /\ CallsOf(o)[1].message = StoreFaultMessage
        /\ CallsOf(o)[maxAttempts].message = CircuitOpenMessage
        /\ CaughtMessage(o) = CircuitOpenMessage

\* --------------------------------------- writeEventWithRetry under any config
RetryConfigs ==
    [initialDelay : 1..MaxInitialDelay, backoffMultiplier : 0..MaxMultiplier,
     maxDelay : 1..MaxDelayBound, maxAttempts : 1..MaxRetryAttempts]

InitDelay ==
    /\ PipelineIdle
    /\ Constructed
    /\ now = 0
    /\ isRunning = TRUE
    /\ healthStatus = NotChecked
    /\ WritersIdle
    /\ retry \in RetryConfigs
    /\ waited = << >>
    /\ retryState = "trying"
    /\ DlqIdle
    /\ BatchIdle
    /\ ServiceUp

\* the attempt parameter of the call in progress
retryAttempt == Len(waited) + 1

\* writeEvent returned: writeEventWithRetry returns its result
RetryReturns ==
    /\ retryState = "trying"
    /\ retryState' = "returned"
    /\ UNCHANGED << pipelineVars, circuit, collection, writerMetrics, metrics,
                    now, writersVars, healthVars, retry, waited, dlqVars, batchVars, lifeVars >>

\* writeEvent threw and attempt >= maxAttempts: rethrow
RetryThrows ==
    /\ retryState = "trying"
    /\ retryAttempt >= retry.maxAttempts
    /\ retryState' = "threw"
    /\ UNCHANGED << pipelineVars, circuit, collection, writerMetrics, metrics,
                    now, writersVars, healthVars, retry, waited, dlqVars, batchVars, lifeVars >>

\* writeEvent threw and attempt < maxAttempts: wait the delay, then call
\* writeEventWithRetry(event, attempt + 1)
RetryWaits ==
    /\ retryState = "trying"
    /\ retryAttempt < retry.maxAttempts
    /\ waited' = Append(waited, delay(retry.initialDelay, retry.backoffMultiplier,
                                      retry.maxDelay, retryAttempt))
    /\ UNCHANGED << pipelineVars, circuit, collection, writerMetrics, metrics,
                    now, writersVars, healthVars, retry, retryState, dlqVars, batchVars, lifeVars >>

NextDelay == RetryReturns \/ RetryThrows \/ RetryWaits

SpecDelay == InitDelay /\ [][NextDelay]_vars

\* -------------------------------------------------------------------- C18
\* initialDelay * backoffMultiplier^(k-1), the first factor of the minimum
Uncapped(k) ==
    IF k = 1 THEN retry.initialDelay
    ELSE retry.initialDelay * (retry.backoffMultiplier ^ (k - 1))

\* C18: the delay waited after failing attempt k, k < maxAttempts, is
\* min(initialDelay * backoffMultiplier^(k-1), maxDelay); it never exceeds
\* maxDelay, and with backoffMultiplier >= 1 the delays never decrease
C18_DelayIsCappedExponential ==
    /\ Len(waited) < retry.maxAttempts
    /\ \A k \in 1..Len(waited) :
          /\ waited[k] = (IF Uncapped(k) <= retry.maxDelay THEN Uncapped(k)
                          ELSE retry.maxDelay)
          /\ waited[k] <= retry.maxDelay
          /\ (retry.backoffMultiplier >= 1 /\ k > 1) => waited[k - 1] <= waited[k]

\* a retry whose delays grew and then hit the cap
C18_Witness ==
    /\ Len(waited) = 3
    /\ waited[1] < waited[2]
    /\ Uncapped(2) < retry.maxDelay
    /\ Uncapped(3) > retry.maxDelay
    /\ waited[3] = retry.maxDelay

\* ------------------------------------------------- sendToDLQ on any message
\* header sets of consumed messages: none, a plain one, and ones that already
\* carry the keys sendToDLQ writes
HeaderSets ==
    { NoHeaders,
      ("trace" :> "1"),
      ("trace" :> "1") @@ (ErrorReasonHeader :> "earlier reason"),
      ("trace" :> "1") @@ (FailedTimestampHeader :> "earlier")
          @@ (OriginalTopicHeader :> "other-topic") }

\* consumed messages: message.key may be null (""), message.value any bytes
Messages ==
    [key : {"", "k"},
     value : { Value(TRUE, "a", "t", "s", "1", Absent),
               Value(FALSE, Absent, Absent, Absent, Absent, Absent) },
     headers : HeaderSets]

\* the errorReason arguments processBatch passes
ErrorReasons == { InvalidMessageReason, StoreFaultMessage, CircuitOpenMessage }

InitDlq ==
    /\ PipelineIdle
    /\ Constructed
    /\ now = 0
    /\ isRunning = TRUE
    /\ healthStatus = NotChecked
    /\ WritersIdle
    /\ DelayIdle
    /\ message \in Messages
    /\ dlqTopic = << >>
    /\ BatchIdle
    /\ ServiceUp

\* sendToDLQ(message, errorReason) whose dlqProducer.send is acknowledged
DlqAppend ==
    /\ metrics.dlqMessages < MaxDlqSends
    /\ metrics' = [metrics EXCEPT !.dlqMessages = @ + 1]
    /\ \E errorReason \in ErrorReasons, t \in now..MaxClock :
         /\ now' = t
         /\ dlqTopic' = Append(dlqTopic,
                [topic |-> dlqTopicName, original |-> message,
                 sent |-> buildDlqMessage(message, errorReason, t),
                 reason |-> errorReason, at |-> t])
    /\ UNCHANGED << pipelineVars, circuit, collection, writerMetrics,
                    writersVars, healthVars, delayVars, message, batchVars, lifeVars >>

\* sendToDLQ(message, errorReason) whose dlqProducer.send throws: the error
\* is logged and rethrown, nothing reaches the topic
DlqAppendFails ==
    /\ metrics.dlqMessages < MaxDlqSends
    /\ metrics' = [metrics EXCEPT !.dlqMessages = @ + 1]
    /\ \E t \in now..MaxClock : now' = t
    /\ UNCHANGED << pipelineVars, circuit, collection, writerMetrics,
                    writersVars, healthVars, delayVars, dlqVars, batchVars, lifeVars >>

NextDlq == DlqAppend \/ DlqAppendFails

SpecDlq == InitDlq /\ [][NextDlq]_vars

\* -------------------------------------------------------------------- C19
AddedHeaders == { ErrorReasonHeader, FailedTimestampHeader, OriginalTopicHeader }

\* C19: every message on the dead-letter topic has the key and the value of
\* the message it was made from; its headers are that message's headers and
\* the three added ones, which hold the error reason, the clock reading of the
\* failure as a decimal string and the consumed topic; every other header of
\* the original keeps its value
C19_DlqEntryPreservesMessage ==
    \A i \in 1..Len(dlqTopic) :
        LET e == dlqTopic[i] IN
        /\ e.topic = dlqTopicName
        /\ e.sent.key = e.original.key
        /\ e.sent.value = e.original.value
        /\ DOMAIN e.sent.headers = DOMAIN e.original.headers \cup AddedHeaders
        /\ e.sent.headers[ErrorReasonHeader] = e.reason
        /\ e.sent.headers[FailedTimestampHeader] = ToString(e.at)
        /\ e.sent.headers[OriginalTopicHeader] = topic
        /\ \A k \in DOMAIN e.original.headers \ AddedHeaders :
              e.sent.headers[k] = e.original.headers[k]

\* a message that already carried an error-reason header and another header
\* was dead-lettered at a later clock reading
C19_Witness ==
    \E i \in 1..Len(dlqTopic) :
        /\ ErrorReasonHeader \in DOMAIN dlqTopic[i].original.headers
        /\ "trace" \in DOMAIN dlqTopic[i].sent.headers
        /\ dlqTopic[i].original.key = "k"
        /\ dlqTopic[i].at > 0

\* ------------------------------------------------- the consumer's health
\* the consumer as constructed, before start(); the clock has some positive
\* reading
InitHealth ==
    /\ PipelineIdle
    /\ Constructed
    /\ now = 1
    /\ isRunning = FALSE
    /\ healthStatus = NotChecked
    /\ WritersIdle
    /\ DelayIdle
    /\ DlqIdle
    /\ BatchIdle
    /\ ServiceUp

\* start() connected and subscribed: this.isRunning = true
ConsumerStarts ==
    /\ ~isRunning
    /\ ~isShuttingDown
    /\ isRunning' = TRUE
    /\ UNCHANGED << pipelineVars, circuit, collection, writerMetrics, metrics,
                    now, writersVars, healthStatus, delayVars, dlqVars, batchVars, lifeVars >>

\* processBatch stored a record: messagesProcessed++ and
\* lastProcessedTimestamp = Date.now()
MessageProcessed ==
    /\ isRunning
    /\ metrics.messagesProcessed < MaxProcessed
    /\ \E t \in now..MaxClock :
         /\ now' = t
         /\ metrics' = [metrics EXCEPT !.messagesProcessed = @ + 1,
                                       !.lastProcessedTimestamp = t]
    /\ UNCHANGED << pipelineVars, circuit, collection, writerMetrics,
                    writersVars, healthVars, delayVars, dlqVars, batchVars, lifeVars >>

\* shutdown() sets isShuttingDown and starts disconnecting
ShutdownBegins ==
    /\ ~isShuttingDown
    /\ isShuttingDown' = TRUE
    /\ UNCHANGED << batch, pc, idx, event, attempt, dlqMessage, running,
                    resolved, autoResolved, sinkCalls, dlqCalls, heartbeats,
                    backoffs, circuit, collection, writerMetrics, metrics, now,
                    writersVars, healthVars, delayVars, dlqVars, batchVars, lifeVars >>

\* shutdown() has disconnected consumer and producer: this.isRunning = false
ShutdownEnds ==
    /\ isShuttingDown
    /\ isRunning
    /\ isRunning' = FALSE
    /\ UNCHANGED << pipelineVars, circuit, collection, writerMetrics, metrics,
                    now, writersVars, healthStatus, delayVars, dlqVars, batchVars, lifeVars >>

\* healthCheck() is called at clock reading t
HealthCheck ==
    /\ \E t \in now..MaxClock :
         /\ now' = t
         /\ healthStatus' =
                [status |-> healthCheck(isRunning,
                                        metrics.lastProcessedTimestamp, t),
                 at |-> t, isRunning |-> isRunning,
                 lastProcessed |-> metrics.lastProcessedTimestamp]
    /\ UNCHANGED << pipelineVars, circuit, collection, writerMetrics, metrics,
                    writersVars, isRunning, delayVars, dlqVars, batchVars, lifeVars >>

NextHealth ==
    \/ ConsumerStarts
    \/ MessageProcessed
    \/ ShutdownBegins
    \/ ShutdownEnds
    \/ HealthCheck

SpecHealth == InitHealth /\ [][NextHealth]_vars

\* -------------------------------------------------------------------- C20
\* a record was stored no longer than the staleness window before the check
ProcessedWithinWindow(h) ==
    /\ h.lastProcessed # NoTimestamp
    /\ h.at - h.lastProcessed <= staleAfter

\* the status the health derivation is said to give for the state of a check
ClaimedStatus(h) ==
    IF ~h.isRunning THEN "unhealthy"
    ELSE IF ~ProcessedWithinWindow(h) THEN "degraded"
         ELSE "healthy"

\* C20: every healthCheck() returns unhealthy iff the consumer is not running,
\* otherwise degraded iff no record was stored within the staleness window
\* before the check, otherwise healthy
C20_HealthAsClaimed ==
    healthStatus # NotChecked => healthStatus.status = ClaimedStatus(healthStatus)

\* the same, for the checks made after a first record was stored
HealthAfterFirstRecord ==
    (healthStatus # NotChecked /\ healthStatus.lastProcessed # NoTimestamp)
        => healthStatus.status = ClaimedStatus(healthStatus)


\* ------------------------------------------- claims C21, C22 (SpecWriters)
\* C21: a canExecute call made while the circuit is OPEN returns true exactly
\* when timeoutMs has elapsed since the failure that moved the circuit to OPEN;
\* failures recorded while it was already OPEN do not postpone the probe.
C21_ReopensAfterOpeningFailure ==
    (Did("canExecute") /\ Before = OPEN)
        => (lastOp.allowed <=> lastOp.t - openedAt >= timeoutMs)

\* C22: the recordFailure that moves the circuit from CLOSED to OPEN leaves the
\* failure count at zero.
C22_OpeningResetsFailureCount ==
    (Did("recordFailure") /\ Before = CLOSED /\ circuit.circuitState = OPEN)
        => circuit.failureCount = 0


\* ------------------------------------------------- claim C23 (SpecWriters)
\* the writeEvent calls suspended on updateOne
InFlight == { w \in Workers : wpc[w] = "updateOne" }

\* C23: a writeEvent call that passed the gate records one outcome, once:
\* recordSuccess when updateOne reported an insert or a duplicate,
\* recordFailure when updateOne threw; a call the gate rejected records none.
\* So the outcomes recorded are as many as the admitted calls that ended.
C23_OneOutcomePerAdmittedCall ==
    /\ lastOp.call \in {"inserted", "duplicate"} => Did("recordSuccess")
    /\ lastOp.call = "fault" => Did("recordFailure")
    /\ lastOp.call = "rejected" =>
           /\ Did("canExecute")
           /\ ~lastOp.allowed
           /\ circuit = lastOp.before
    /\ lastOp.call = "pending" => (Did("canExecute") /\ lastOp.allowed)
    /\ recorded + Cardinality(InFlight) = admitted

\* a duplicate write ended while another call was in flight, after enough
\* calls had failed to open the circuit
C23_Witness ==
    /\ lastOp.call = "duplicate"
    /\ InFlight # {}
    /\ writerMetrics.failedWrites >= failureThreshold
    /\ recorded >= failureThreshold + 2


\* --------------------------------------------------- claim C24 (SpecRetry)
\* C24: every writeEvent call, admitted or rejected by the gate, adds one to
\* totalWrites and one to exactly one of successfulWrites, duplicateWrites and
\* failedWrites: while no call is suspended on updateOne, totalWrites is the
\* sum of the three and the number of writeEvent calls made.
C24_EveryCallCounted ==
    pc # "updateOne" =>
        /\ writerMetrics.totalWrites = Len(sinkCalls)
        /\ writerMetrics.successfulWrites + writerMetrics.duplicateWrites
               + writerMetrics.failedWrites = Len(sinkCalls)

\* what the counters do satisfy: the calls that passed the gate are counted,
\* the rejected ones are not
AdmittedCallsCounted ==
    pc # "updateOne" =>
        /\ writerMetrics.totalWrites
               = Len(SelectSeq(sinkCalls, LAMBDA c : c.outcome # "rejected"))
        /\ writerMetrics.successfulWrites + writerMetrics.duplicateWrites
               + writerMetrics.failedWrites = writerMetrics.totalWrites


\* --------------------------------------------------- claim C25 (SpecRetry)
\* heartbeat() was called for the message at offset o
HeartbeatCalled(o) == \E i \in 1..Len(heartbeats) : heartbeats[i].offset = o

\* C25: processBatch calls heartbeat() after handling each message, whatever
\* became of it: once the loop has moved past a message, heartbeat() has been
\* called for it, so a heartbeat lies between any two consecutive messages.
C25_KeepAliveAfterEachRecord ==
    \A o \in Offsets : o < idx => HeartbeatCalled(o)

\* what the loop does satisfy: heartbeat() follows the messages whose write
\* succeeded, and only those
KeepAliveAfterStoredOnly ==
    \A o \in Offsets : o < idx => (HeartbeatCalled(o) <=> WriteSucceeded(o))


\* --------------------------------------------------- claim C26 (SpecRetry)
\* a writeEvent call or a dead-letter append for offset o has been started
WorkBegun(o) ==
    \/ SinkCalled(o)
    \/ DlqAttempts(o) # << >>
    \/ (idx = o /\ pc \in {"writeEvent", "updateOne", "backoff"})

\* the entries of a log are in the order of the offsets
InArrivalOrder(log) ==
    \A a, b \in 1..Len(log) : a < b => log[a].offset <= log[b].offset

\* C26: the messages of a batch are handled one at a time in arrival order: no
\* write or dead-letter append for a message starts before every earlier
\* message has ended its retries and had its offset resolved.
C26_OneRecordAtATime ==
    /\ InArrivalOrder(sinkCalls)
    /\ InArrivalOrder(dlqCalls)
    /\ InArrivalOrder(backoffs)
    /\ \A j \in Offsets : WorkBegun(j) =>
           \A i \in 1..(j - 1) : i \in ResolvedOffsets /\ idx > i

\* the write of the second message is in flight after the first one used up
\* its attempts and was dead-lettered
C26_Witness ==
    /\ idx = 2
    /\ pc = "updateOne"
    /\ Exhausted(1)
    /\ DeadLettered(1)
    /\ Len(BackoffsOf(1)) = maxAttempts - 1


\* --------------------------------------------------- claim C29 (SpecRetry)
\* C29: a message whose write succeeded in this processBatch pass is not
\* appended to the dead-letter topic in that pass and is not counted in
\* messagesFailed, also when the heartbeat() that follows resolveOffset
\* throws: a message is stored or dead-lettered, never both.
C29_StoredNeverDeadLettered ==
    /\ \A o \in Offsets : WriteSucceeded(o) => DlqAttempts(o) = << >>
    /\ metrics.messagesFailed
           <= Cardinality({ o \in Offsets : WorkBegun(o) /\ ~WriteSucceeded(o) })


\* ------------------------------------------------- claim C30 (SpecWriters)
\* C30: the circuit leaves HALF_OPEN, to CLOSED or back to OPEN, only on the
\* outcome of a call that passed the gate while the circuit was HALF_OPEN; the
\* late outcome of a call admitted while it was still CLOSED does not count
\* as a probe success or a probe failure.
C30_OnlyProbesDecide ==
    ((Did("recordSuccess") \/ Did("recordFailure")) /\ Before = HALF_OPEN
        /\ lastOp.admittedIn # HALF_OPEN)
        => /\ circuit.circuitState = HALF_OPEN
           /\ circuit.successCount = lastOp.before.successCount


\* ------------------------------------------------- writeBatch on the writer
\* the events handed to writeBatch: two ids, and an event whose payload has a
\* field named _id
BatchEvents ==
    { Value(TRUE, "a", "t", "s", "1", Absent),
      Value(TRUE, "b", "t", "s", "1", Absent),
      Value(TRUE, "a", "t", "s", "1", "c") }

\* the events arguments: arrays of 0..MaxEvents events (null is handled as the
\* empty array is)
EventArrays == UNION { [1..n -> BatchEvents] : n \in 0..MaxEvents }

\* one operation of the bulk: updateOne with filter {_id: event.id}, update
\* {$setOnInsert: {_id: event.id, ...event}} and upsert. A stored document
\* with the filter's _id is matched and left alone; otherwise the document is
\* inserted, unless $setOnInsert carries another _id than the filter, which
\* the store refuses as a change of _id
bulkUpdateOne(coll, ev) ==
    IF \E d \in coll : d._id = ev.id
    THEN [collection |-> coll, upserted |-> 0, error |-> FALSE]
    ELSE IF document(ev)._id # ev.id
         THEN [collection |-> coll, upserted |-> 0, error |-> TRUE]
         ELSE [collection |-> coll \cup {document(ev)}, upserted |-> 1,
               error |-> FALSE]

\* collection.bulkWrite(operations, {ordered: false}) as far as the store
\* executed it: the operations at the positions in applied, each on its own
RECURSIVE bulkWrite(_, _, _)
bulkWrite(coll, events, applied) ==
    IF Len(events) = 0
    THEN [collection |-> coll, upsertedCount |-> 0, writeErrors |-> 0]
    ELSE LET n == Len(events)
             sofar == bulkWrite(coll, SubSeq(events, 1, n - 1), applied)
             r == bulkUpdateOne(sofar.collection, events[n])
         IN IF n \notin applied
            THEN sofar
            ELSE [collection |-> r.collection,
                  upsertedCount |-> sofar.upsertedCount + r.upserted,
                  writeErrors |-> sofar.writeErrors + IF r.error THEN 1 ELSE 0]

\* a variant that reports every event as inserted
batchResultAllInserted(upsertedCount, total) ==
    [outcome |-> "returned", inserted |-> total, duplicates |-> 0, failed |-> 0]

\* what writeBatch returns for a bulk result: inserted = upsertedCount,
\* duplicates = events.length - inserted
batchResult(upsertedCount, total) ==
    [outcome |-> "returned", inserted |-> upsertedCount,
     duplicates |-> total - upsertedCount, failed |-> 0]

InitBatch ==
    /\ PipelineIdle
    /\ Constructed
    /\ now = 0
    /\ isRunning = TRUE
    /\ healthStatus = NotChecked
    /\ WritersIdle
    /\ DelayIdle
    /\ DlqIdle
    /\ BatchIdle
    /\ ServiceUp

\* writeBatch(events) and canExecute() is false: the call throws before it
\* reads events
WriteBatchRejected ==
    /\ bpc = "idle"
    /\ \E t \in ClockAtGate :
         /\ ~canExecute(circuit, t).allowed
         /\ circuit' = canExecute(circuit, t).circuit
         /\ now' = t
    /\ bresult' = [outcome |-> "rejected", inserted |-> 0, duplicates |-> 0,
                   failed |-> 0]
    /\ brecorded' = << >>
    /\ UNCHANGED << pipelineVars, collection, writerMetrics, metrics, bpc,
                    bevents, bstored, writersVars, healthVars, delayVars,
                    dlqVars, lifeVars >>

\* writeBatch([]) past the gate: returns before the try block
WriteBatchEmpty ==
    /\ bpc = "idle"
    /\ \E t \in ClockAtGate :
         /\ canExecute(circuit, t).allowed
         /\ circuit' = canExecute(circuit, t).circuit
         /\ now' = t
    /\ bevents' = << >>
    /\ bresult' = [outcome |-> "returned", inserted |-> 0, duplicates |-> 0,
                   failed |-> 0]
    /\ bstored' = collection
    /\ brecorded' = << >>
    /\ UNCHANGED << pipelineVars, collection, writerMetrics, metrics, bpc,
                    writersVars, healthVars, delayVars, dlqVars, lifeVars >>

\* writeBatch(events) past the gate with events: totalWrites += length,
\* batchWrites++, bulkWrite is sent and the call is suspended on it
WriteBatchAdmitted ==
    /\ bpc = "idle"
    /\ \E t \in ClockAtGate :
         /\ canExecute(circuit, t).allowed
         /\ circuit' = canExecute(circuit, t).circuit
         /\ now' = t
    /\ bevents' \in EventArrays \ {<< >>}
    /\ writerMetrics.totalWrites + Len(bevents') <= MaxBatchWrites
    /\ writerMetrics' = [writerMetrics EXCEPT
                            !.totalWrites = @ + Len(bevents'),
                            !.batchWrites = @ + 1]
    /\ bresult' = NoBatchResult
    /\ bstored' = collection
    /\ brecorded' = << >>
    /\ bpc' = "bulkWrite"
    /\ UNCHANGED << pipelineVars, collection, metrics, writersVars, healthVars,
                    delayVars, dlqVars, lifeVars >>

\* bulkWrite returned: every operation was executed and none was refused;
\* count the events, recordSuccess, return the counts
BulkWriteReturns ==
    /\ bpc = "bulkWrite"
    /\ LET r == bulkWrite(collection, bevents, 1..Len(bevents))
           result == batchResult(r.upsertedCount, Len(bevents))
       IN /\ r.writeErrors = 0
          /\ collection' = r.collection
          /\ writerMetrics' = [writerMetrics EXCEPT
                                  !.successfulWrites = @ + result.inserted,
                                  !.duplicateWrites = @ + result.duplicates]
          /\ bresult' = result
    /\ circuit' = recordSuccess(circuit)
    /\ brecorded' = Append(brecorded, "recordSuccess")
    /\ bpc' = "idle"
    /\ UNCHANGED << pipelineVars, metrics, now, bevents, bstored, writersVars,
                    healthVars, delayVars, dlqVars, lifeVars >>

\* bulkWrite threw, after the store executed some of the operations (the
\* driver throws when the store refused an operation or the connection
\* failed): failedWrites += length, recordFailure, rethrow
BulkWriteFaults ==
    /\ bpc = "bulkWrite"
    /\ \E applied \in SUBSET (1..Len(bevents)) :
         collection' = bulkWrite(collection, bevents, applied).collection
    /\ writerMetrics' = [writerMetrics EXCEPT !.failedWrites = @ + Len(bevents)]
    /\ \E t \in now..MaxTime :
         /\ circuit' = recordFailure(circuit, t)
         /\ now' = t
    /\ bresult' = [outcome |-> "threw", inserted |-> 0, duplicates |-> 0,
                   failed |-> 0]
    /\ brecorded' = Append(brecorded, "recordFailure")
    /\ bpc' = "idle"
    /\ UNCHANGED << pipelineVars, metrics, bevents, bstored, writersVars,
                    healthVars, delayVars, dlqVars, lifeVars >>

NextBatch ==
    \/ WriteBatchRejected
    \/ WriteBatchEmpty
    \/ WriteBatchAdmitted
    \/ BulkWriteReturns
    \/ BulkWriteFaults

SpecBatch == InitBatch /\ [][NextBatch]_vars

\* ---------------------------------------------- claims C27, C28 (SpecBatch)
\* C27: a writeBatch call that passed the gate records one circuit outcome for
\* the whole call, recordSuccess when the bulk operation returned and
\* recordFailure when it threw, for every events array, the empty one
\* included; a call the gate rejected throws and records none.
C27_OneOutcomePerBatchCall ==
    /\ bresult.outcome = "returned" => brecorded = << "recordSuccess" >>
    /\ bresult.outcome = "threw" => brecorded = << "recordFailure" >>
    /\ bresult.outcome = "rejected" => brecorded = << >>
    /\ bpc = "bulkWrite" => brecorded = << >>

\* what writeBatch does satisfy: the same, for the calls with events
OneOutcomePerFilledBatch ==
    /\ (bresult.outcome = "returned" /\ bevents # << >>)
           => brecorded = << "recordSuccess" >>
    /\ (bresult.outcome = "returned" /\ bevents = << >>) => brecorded = << >>
    /\ bresult.outcome = "threw" => brecorded = << "recordFailure" >>
    /\ bresult.outcome = "rejected" => brecorded = << >>
    /\ bpc = "bulkWrite" => brecorded = << >>


\* the _id values of the stored documents
StoredIds(coll) == { d._id : d \in coll }

\* the positions of the last call's events whose id was stored when the call
\* began or stands at an earlier position of the same call
RepeatedPositions ==
    { i \in 1..Len(bevents) :
        \/ bevents[i].id \in StoredIds(bstored)
        \/ \E j \in 1..(i - 1) : bevents[j].id = bevents[i].id }

\* C28: a writeBatch call that returned reports as inserted the number of ids
\* the call added to the collection and as duplicates the number of events
\* whose id was stored before or came earlier in the same call; the two add up
\* to the number of events, and every event reported has a document under
\* its id, so none that failed to persist is reported as a duplicate.
C28_BatchCountsAreExact ==
    bresult.outcome = "returned" =>
        /\ bresult.inserted
               = Cardinality(StoredIds(collection) \ StoredIds(bstored))
        /\ bresult.duplicates = Cardinality(RepeatedPositions)
        /\ bresult.inserted + bresult.duplicates = Len(bevents)
        /\ \A i \in 1..Len(bevents) : bevents[i].id \in StoredIds(collection)

\* a call with a new id and a stored id returned, after an earlier call
\* threw with part of its events stored
C28_Witness ==
    /\ bresult.outcome = "returned"
    /\ bresult.inserted = 1
    /\ bresult.duplicates = 1
    /\ bstored # {}
    /\ writerMetrics.failedWrites > 0
    /\ writerMetrics.successfulWrites = 1


\* --------------------------------------------------- shutdown of the service
\* the other variables of the writer, the pipeline and the runs beside it
besideShutdown ==
    << batch, pc, idx, event, attempt, dlqMessage, running, resolved,
       autoResolved, sinkCalls, dlqCalls, heartbeats, backoffs, circuit,
       collection, writerMetrics, metrics, now, writersVars, healthStatus,
       delayVars, dlqVars, batchVars, ipc, storeFaulty >>

InitShutdown ==
    /\ PipelineIdle
    /\ Constructed
    /\ now = 0
    /\ isRunning = TRUE
    /\ healthStatus = NotChecked
    /\ WritersIdle
    /\ DelayIdle
    /\ DlqIdle
    /\ BatchIdle
    /\ ServiceUp

\* a handler is inside kafkaConsumer.shutdown(), suspended on a disconnect
Disconnecting(h) == spc[h] \in {"consumerDisconnect", "producerDisconnect"}

\* a trigger reaches the process: shutdown(signal) runs server.close and calls
\* kafkaConsumer.shutdown(), which returns at once when isShuttingDown is set
\* and otherwise sets it and awaits consumer.disconnect()
ShutdownTriggered(h) ==
    /\ service.exitCode = NotExited
    /\ spc[h] = "idle"
    /\ isShuttingDown' = TRUE
    /\ spc' = [spc EXCEPT ![h] = IF isShuttingDown THEN "shutdownReturned"
                                  ELSE "consumerDisconnect"]
    /\ UNCHANGED << besideShutdown, isRunning, connection, service >>

\* consumer.disconnect() returned: dlqProducer.disconnect() is awaited
ConsumerDisconnects(h) ==
    /\ service.exitCode = NotExited
    /\ spc[h] = "consumerDisconnect"
    /\ service' = [service EXCEPT !.consumerConnected = FALSE]
    /\ spc' = [spc EXCEPT ![h] = "producerDisconnect"]
    /\ UNCHANGED << besideShutdown, isShuttingDown, isRunning, connection >>

\* dlqProducer.disconnect() returned: isRunning = false, shutdown() returns
ProducerDisconnects(h) ==
    /\ service.exitCode = NotExited
    /\ spc[h] = "producerDisconnect"
    /\ service' = [service EXCEPT !.producerConnected = FALSE]
    /\ isRunning' = FALSE
    /\ spc' = [spc EXCEPT ![h] = "shutdownReturned"]
    /\ UNCHANGED << besideShutdown, isShuttingDown, connection >>

\* a disconnect or client.close() threw: the handler's catch block calls
\* process.exit(1)
ShutdownThrows(h) ==
    /\ service.exitCode = NotExited
    /\ Disconnecting(h) \/ spc[h] = "clientClose"
    /\ service' = [service EXCEPT !.exitCode = 1]
    /\ spc' = [spc EXCEPT ![h] = "exited"]
    /\ UNCHANGED << besideShutdown, isShuttingDown, isRunning, connection >>

\* kafkaConsumer.shutdown() returned to the handler, which calls
\* mongoWriter.close(): with a client it awaits client.close(), without one it
\* returns
StoreCloseCalled(h) ==
    /\ service.exitCode = NotExited
    /\ spc[h] = "shutdownReturned"
    /\ IF connection.client # "null"
       THEN /\ connection' = [connection EXCEPT !.client = "closing"]
            /\ spc' = [spc EXCEPT ![h] = "clientClose"]
       ELSE /\ connection' = connection
            /\ spc' = [spc EXCEPT ![h] = "closeReturned"]
    /\ UNCHANGED << besideShutdown, isShuttingDown, isRunning, service >>

\* client.close() returned: isConnected = false, client, db and collection
\* are set to null, close() returns
ClientCloses(h) ==
    /\ service.exitCode = NotExited
    /\ spc[h] = "clientClose"
    /\ connection' = [connection EXCEPT !.client = "null",
                                        !.isConnected = FALSE, !.db = FALSE]
    /\ spc' = [spc EXCEPT ![h] = "closeReturned"]
    /\ UNCHANGED << besideShutdown, isShuttingDown, isRunning, service >>

\* mongoWriter.close() returned to the handler: process.exit(0)
ProcessExits(h) ==
    /\ service.exitCode = NotExited
    /\ spc[h] = "closeReturned"
    /\ service' = [service EXCEPT !.exitCode = 0]
    /\ spc' = [spc EXCEPT ![h] = "exited"]
    /\ UNCHANGED << besideShutdown, isShuttingDown, isRunning, connection >>

NextShutdown ==
    \E h \in Triggers :
        \/ ShutdownTriggered(h)
        \/ ConsumerDisconnects(h)
        \/ ProducerDisconnects(h)
        \/ ShutdownThrows(h)
        \/ StoreCloseCalled(h)
        \/ ClientCloses(h)
        \/ ProcessExits(h)

SpecShutdown == InitShutdown /\ [][NextShutdown]_vars

\* ------------------------------------------------ claim C31 (SpecShutdown)
\* C31: during shutdown the store connection is closed, and the process
\* exits, only after the consumer's shutdown (the consumer's and the
\* dead-letter producer's disconnect) has ended, also when a second trigger
\* arrives while the first shutdown is in progress.
C31_StoreClosedAfterConsumer ==
    (connection.client # "open" \/ service.exitCode # NotExited)
        => /\ isShuttingDown
           /\ \A h \in Triggers : ~Disconnecting(h)

\* what one trigger alone does satisfy: the client is closed and the process
\* exits with 0 only when both disconnects have returned
OneTriggerClosesInOrder ==
    (\A h \in Triggers : h # 1 => spc[h] = "idle")
        => ((connection.client # "open" \/ service.exitCode = 0)
               => (~service.consumerConnected /\ ~service.producerConnected))


\* ------------------------------------------ recovery of the circuit breaker
InitRecovery ==
    /\ PipelineIdle
    /\ Constructed
    /\ now = 0
    /\ isRunning = TRUE
    /\ healthStatus = NotChecked
    /\ WritersIdle
    /\ DelayIdle
    /\ DlqIdle
    /\ BatchIdle
    /\ ServiceUp

\* a worker's updateOne threw, which a faulty store alone does; the clock
\* keeps room for the open timeout to elapse after the failure
StoreFaults(w) ==
    /\ storeFaulty
    /\ WorkerUpdateOneFaults(w)
    /\ now' + timeoutMs <= MaxClock

\* a worker's writeEvent call passes the gate, while the run has calls left
CallAdmitted(w) ==
    /\ writerMetrics.totalWrites < MaxRecoveryCalls
    /\ WorkerAdmitted(w)

\* the store stops answering with errors
StoreRecovers ==
    /\ storeFaulty
    /\ storeFaulty' = FALSE
    /\ UNCHANGED << pipelineVars, circuit, collection, writerMetrics, metrics,
                    now, writersVars, healthVars, delayVars, dlqVars,
                    batchVars, connection, ipc, spc, service >>

NextRecovery ==
    \/ StoreRecovers
    \/ \E w \in Workers :
          \/ WorkerRejected(w)
          \/ CallAdmitted(w)
          \/ WorkerUpdateOneReturns(w)
          \/ StoreFaults(w)

\* write calls keep being made as time passes, and every updateOne ends
SpecRecovery ==
    /\ InitRecovery
    /\ [][NextRecovery]_vars
    /\ WF_vars(\E w \in Workers : CallAdmitted(w))
    /\ \A w \in Workers : WF_vars(WorkerUpdateOneReturns(w))

\* ------------------------------------------------ claim C32 (SpecRecovery)
\* C32: once the store has stopped faulting, with write calls still to come,
\* the circuit reaches CLOSED and stays CLOSED.
C32_CircuitRecovers ==
    []((~storeFaulty
           /\ writerMetrics.totalWrites + successThreshold <= MaxRecoveryCalls)
          => <>[](circuit.circuitState = CLOSED))

\* the store has recovered while the circuit was OPEN before its timeout, and
\* the circuit has closed again
C32_Witness ==
    /\ ~storeFaulty
    /\ circuit.circuitState = CLOSED
    /\ writerMetrics.failedWrites >= failureThreshold
    /\ Did("recordSuccess")
    /\ Before = HALF_OPEN


\* ------------------------------------------------ termination of processBatch
\* a step of processBatch itself: the event loop resumes it after the call it
\* awaits has returned or thrown
ProcessBatchStep ==
    \/ processBatch
    \/ LoopExit
    \/ LoopBreak
    \/ ParseInvalid
    \/ ParseValid
    \/ WriteEventRejected
    \/ WriteEventAdmitted
    \/ UpdateOneReturns
    \/ UpdateOneFaults
    \/ BackoffElapsed
    \/ HeartbeatReturns
    \/ HeartbeatThrows
    \/ DlqSendReturns
    \/ DlqSendThrows

\* every store, dead-letter and heartbeat call ends, and timers fire
SpecTermination == InitRetry /\ [][Next]_vars /\ WF_vars(ProcessBatchStep)

\* ---------------------------------------------- claim C33 (SpecTermination)
\* the error processBatch ended with came from a dead-letter append made in
\* the catch block
EndedWithDlqError ==
    /\ dlqCalls # << >>
    /\ ~dlqCalls[Len(dlqCalls)].ok
    /\ dlqCalls[Len(dlqCalls)].from = "catch"

\* C33: processBatch ends for every batch when every call it awaits ends; no
\* message gets more than maxAttempts writeEvent calls; and processBatch
\* returns or throws the error of a dead-letter append.
C33_ProcessBatchTerminates ==
    /\ <>Ended
    /\ [](\A o \in Offsets : Len(CallsOf(o)) <= maxAttempts)
    /\ [](attempt <= maxAttempts)
    /\ [](EndedWithError => EndedWithDlqError)

\* processBatch returned after each of two messages used up its attempts
C33_Witness ==
    /\ pc = "done"
    /\ Len(batch) = MaxBatch
    /\ \A o \in Offsets : Len(CallsOf(o)) = maxAttempts /\ DeadLettered(o)


\* ------------------------------------------------- claim C34 (SpecWriters)
\* C34: in every state of the breaker, CLOSED comes with a failure count
\* below failureThreshold and a success count of zero, OPEN and HALF_OPEN
\* come with a last-failure timestamp that is set, and the success count is
\* below successThreshold.
C34_CircuitInvariant ==
    /\ circuit.circuitState = CLOSED =>
           /\ circuit.failureCount < failureThreshold
           /\ circuit.successCount = 0
    /\ circuit.circuitState \in {OPEN, HALF_OPEN} =>
           circuit.lastFailureTime # NoFailureTime
    /\ circuit.successCount < successThreshold

\* the circuit has closed again after probes, and failures are being counted
\* anew with a call of another worker in flight
C34_Witness ==
    /\ circuit.circuitState = CLOSED
    /\ circuit.failureCount > 0
    /\ writerMetrics.failedWrites > failureThreshold
    /\ InFlight # {}


\* ------------------------------------------ concurrent initialize() calls
InitConnect ==
    /\ PipelineIdle
    /\ Constructed
    /\ now = 0
    /\ isRunning = TRUE
    /\ healthStatus = NotChecked
    /\ WritersIdle
    /\ DelayIdle
    /\ DlqIdle
    /\ BatchIdle
    /\ connection = NotConnected
    /\ ipc = [c \in Callers |-> "idle"]
    /\ spc = [h \in Triggers |-> "idle"]
    /\ service = [consumerConnected |-> FALSE, producerConnected |-> FALSE,
                  exitCode |-> NotExited]
    /\ storeFaulty = TRUE

\* the variables initialize() leaves alone
besideConnect ==
    << pipelineVars, circuit, collection, writerMetrics, metrics, now,
       writersVars, healthVars, delayVars, dlqVars, batchVars, spc, service,
       storeFaulty >>

\* the caller runs the connection attempt: it is suspended on one of the
\* awaits between isConnecting = true and isConnecting = false
Attempting(c) == ipc[c] \in {"connect", "ping", "createIndexes"}

\* a caller calls initialize(), for the first time or again: it returns when
\* isConnected, waits when isConnecting, and otherwise sets isConnecting,
\* creates the client and awaits client.connect()
InitializeCalled(c) ==
    /\ ipc[c] \in {"idle", "returned", "threw"}
    /\ IF connection.isConnected
       THEN /\ ipc' = [ipc EXCEPT ![c] = "returned"]
            /\ connection' = connection
       ELSE IF connection.isConnecting
            THEN /\ ipc' = [ipc EXCEPT ![c] = "waiting"]
                 /\ connection' = connection
            ELSE /\ ipc' = [ipc EXCEPT ![c] = "connect"]
                 /\ connection' = [connection EXCEPT !.isConnecting = TRUE,
                                                     !.client = "open"]
    /\ UNCHANGED besideConnect

\* the 100 ms timer of a waiting caller fired and isConnecting is false: the
\* while loop ends and initialize() returns
WaitEnds(c) ==
    /\ ipc[c] = "waiting"
    /\ ~connection.isConnecting
    /\ ipc' = [ipc EXCEPT ![c] = "returned"]
    /\ UNCHANGED << besideConnect, connection >>

\* client.connect() returned: the ping is awaited
ConnectReturns(c) ==
    /\ ipc[c] = "connect"
    /\ ipc' = [ipc EXCEPT ![c] = "ping"]
    /\ UNCHANGED << besideConnect, connection >>

\* the ping returned: db and collection are set, createIndexes() is awaited
PingReturns(c) ==
    /\ ipc[c] = "ping"
    /\ connection' = [connection EXCEPT !.db = TRUE]
    /\ ipc' = [ipc EXCEPT ![c] = "createIndexes"]
    /\ UNCHANGED besideConnect

\* createIndexes() returned: isConnected = true, isConnecting = false
IndexesCreated(c) ==
    /\ ipc[c] = "createIndexes"
    /\ connection' = [connection EXCEPT !.isConnected = TRUE,
                                        !.isConnecting = FALSE]
    /\ ipc' = [ipc EXCEPT ![c] = "returned"]
    /\ UNCHANGED besideConnect

\* client.connect() or the ping threw: isConnecting = false, rethrow
AttemptThrows(c) ==
    /\ ipc[c] \in {"connect", "ping"}
    /\ connection' = [connection EXCEPT !.isConnecting = FALSE]
    /\ ipc' = [ipc EXCEPT ![c] = "threw"]
    /\ UNCHANGED besideConnect

NextConnect ==
    \E c \in Callers :
        \/ InitializeCalled(c)
        \/ WaitEnds(c)
        \/ ConnectReturns(c)
        \/ PingReturns(c)
        \/ IndexesCreated(c)
        \/ AttemptThrows(c)

SpecConnect == InitConnect /\ [][NextConnect]_vars

\* -------------------------------------------------- claim C35 (SpecConnect)
\* C35: when an initialize() call has returned normally the writer is
\* connected (isConnected, collection set), and at most one connection
\* attempt is in progress at a time, for concurrent callers and also when
\* the attempt a caller waited on failed.
C35_ReturnsConnected ==
    /\ \A c \in Callers :
           ipc[c] = "returned" => (connection.isConnected /\ connection.db)
    /\ Cardinality({ c \in Callers : Attempting(c) }) <= 1

\* what initialize() does satisfy: one attempt at a time, which is in
\* progress exactly while isConnecting is set, and a caller that ran the
\* attempt itself returns connected
OneAttemptAtATime ==
    /\ Cardinality({ c \in Callers : Attempting(c) }) <= 1
    /\ connection.isConnecting <=> \E c \in Callers : Attempting(c)
    /\ connection.isConnected => connection.db

====
